---- MODULE Spec2Model ----
(***************************************************************************)
(* Model of the satellite tracking core of skylock-v2:                     *)
(*   - TleSchedulerService  (server/service/tle_scheduler_service.py)      *)
(*   - ConnectionManager / WifiStrategy (server/service/connection_manager)*)
(*   - TleRepositoryUtils.fetch_and_store_group (server/model/repository)  *)
(*   - SqliteTleRepository and parse_tles  (server/model/repository.py)    *)
(*   - Sgp4SatelliteService  (server/service/satellite_service.py)         *)
(*   - App and its alignment gate  (app.py)                                *)
(* Time is in seconds.  Optional values (Python None) are sequences:       *)
(* <<>> is None and <<v>> is the value v.                                  *)
(***************************************************************************)
EXTENDS Integers, Sequences, FiniteSets, TLC

VARIABLES
    now,              \* the wall clock: time.time() / datetime.now(), in seconds
    strategies,       \* ConnectionManager.strategies: each WifiStrategy's cache
    repo,             \* the database: table tles and its id sequence
    stop_event,       \* TleSchedulerService._stop_event
    thread_ref,       \* TleSchedulerService._thread: None or a Thread object
    last_fetch_time,  \* TleSchedulerService._last_fetch_time
    threads,          \* every Thread object: its position in _run
    callers,          \* every caller context: its position in start() / stop()
    ncalls,           \* the number of start() and stop() calls made so far
    fu,               \* one call of ConnectionManager.fetch_url: its position
    ia,               \* every context's call of WifiStrategy.is_available
    probes,           \* the requests.get(test_url) issued so far, in order
    rc,               \* every context's upsert_tles call under way
    ended,            \* the repository call that ended last, and its outcome
    nrepo,            \* the number of repository calls made so far
    pt,               \* one call of parse_tles: its text and what it returned
    fn,               \* one call of Sgp4SatelliteService: catalog and result
    app,              \* the App object of app.py and the pygame clock
    tg,               \* one SatelliteTargetingService and its can_connect call
    xc                \* a repository's _external_conn and its open transaction

vars == <<now, strategies, repo, stop_event, thread_ref, last_fetch_time,
          threads, callers, ncalls, fu, ia, probes, rc, ended, nrepo, pt, fn,
          app, tg, xc>>

\* ------------------------------------------------------------------ bounds

\* Number of strategies registered with a ConnectionManager whose fetch_url
\* the callers use.
NumStrategies == 2
\* Number of Thread objects start() may create in one behaviour.
MaxThreads == 2
\* Number of caller contexts that call start() and stop().
NumCallers == 2
\* Number of start() and stop() calls made in one behaviour.
MaxCalls == 3
\* The clock stops advancing here, in the scheduler's specification.
MaxTime == 120
\* The clock stops advancing here, in the specification of fetch_url.
FetchMaxTime == 10
\* interval_seconds given to the scheduler's constructor.
Interval == 120
\* The clock stops advancing here, in the specification of is_available.
WifiMaxTime == 7
\* Number of probes issued in one behaviour of that specification.
MaxProbes == 3
\* Number of triples in one batch given to upsert_tles.
MaxBatch == 2
\* Number of repository calls made in one behaviour.
MaxRepoCalls == 2
\* Number of lines of a text given to parse_tles.
MaxLines == 6
\* Number of lines of a text whose parse is followed iteration by iteration.
MaxLoopLines == 5
\* Number of records of a catalog given to find_nearest_satellite.
MaxCatalog == 3
\* Number of distinct distances between a satellite and the user.
MaxDist == 2

\* --------------------------------------------------------- program constants

\* WifiStrategy._check_interval
CheckInterval == 5
\* time.sleep(60) at the end of each loop iteration
SleepSeconds == 60
\* ConnectionManager.__init__ without strategies: [WifiStrategy()], which is
\* what TleSchedulerService.__init__ builds when it is given no manager.
DefaultStrategies == 1

None == <<>>
Some(v) == <<v>>
IsNone(o) == o = <<>>
Val(o) == o[1]

ThreadIds == 1..MaxThreads
CallerIds == 1..NumCallers

\* ------------------------------------------------- WifiStrategy (one strategy)

\* WifiStrategy.__init__: _last_check_time = 0 and no _last_status attribute.
WifiStrategyInit == [last_check_time |-> 0, last_status |-> None]

\* The age test of is_available: the cached status is used.
CacheFresh(s, t) == t - s.last_check_time < CheckInterval

\* WifiStrategy.is_available at clock reading t, the probe answering up.
\* ret is "True", "False" or "AttributeError" (the cached status read before
\* any probe stored one); probed tells whether requests.get was issued.
WifiIsAvailable(s, t, up) ==
    IF CacheFresh(s, t)
    THEN IF IsNone(s.last_status)
         THEN [ret |-> "AttributeError", s |-> s, probed |-> FALSE]
         ELSE [ret |-> IF Val(s.last_status) THEN "True" ELSE "False",
               s |-> s, probed |-> FALSE]
    ELSE [ret |-> IF up THEN "True" ELSE "False",
          s |-> [last_check_time |-> t, last_status |-> Some(up)],
          probed |-> TRUE]

\* ------------------------------------------------------- ConnectionManager

\* any(s.is_available() for s in self.strategies) from strategy i on: the
\* generator stops at the first True, and an exception leaves at once.
RECURSIVE AnyAvailableFrom(_, _, _, _)
AnyAvailableFrom(i, ss, t, up) ==
    IF i > Len(ss)
    THEN [ret |-> "False", ss |-> ss]
    ELSE LET r == WifiIsAvailable(ss[i], t, up[i])
             ss1 == [ss EXCEPT ![i] = r.s]
         IN IF r.ret = "False"
            THEN AnyAvailableFrom(i + 1, ss1, t, up)
            ELSE [ret |-> r.ret, ss |-> ss1]

\* ConnectionManager.is_available
ManagerIsAvailable(ss, t, up) == AnyAvailableFrom(1, ss, t, up)

\* [s.get_status() for s in self.strategies] from strategy i on: get_status
\* calls is_available, and an exception leaves at once.
RECURSIVE GetStatusFrom(_, _, _, _)
GetStatusFrom(i, ss, t, up) ==
    IF i > Len(ss)
    THEN [ret |-> "ok", ss |-> ss]
    ELSE LET r == WifiIsAvailable(ss[i], t, up[i])
             ss1 == [ss EXCEPT ![i] = r.s]
         IN IF r.ret = "AttributeError"
            THEN [ret |-> "AttributeError", ss |-> ss1]
            ELSE GetStatusFrom(i + 1, ss1, t, up)

\* ConnectionManager.get_connection_status
GetConnectionStatus(ss, t, up) ==
    LET a == ManagerIsAvailable(ss, t, up)
    IN IF a.ret = "AttributeError"
       THEN [ret |-> "AttributeError", ss |-> a.ss]
       ELSE GetStatusFrom(1, a.ss, t, up)

\* The bodies a GET of the group URL may return (resp.text).
Bodies == {"tle_a", "tle_b"}

\* One call of ConnectionManager.fetch_url: pc is "idle" (no call yet), "probe"
\* (line 104 is next, for strategy i), "fetch" (line 107 is next, for strategy
\* i), "returned" or "raised"; errors is the list of line 101; log holds the
\* calls made on the strategies, <<method, strategy, what it returned>>;
\* result is the body returned; exc is the exception raised.
FuInit == [pc |-> "idle", i |-> 0, errors |-> <<>>, log |-> <<>>,
           result |-> None, exc |-> "none"]

\* A mutant of Exhausted: the loop falls off its end and None is returned.
ExhaustedReturnsNone(f) == [f EXCEPT !.pc = "returned", !.result = None]

\* fetch_url, lines 113-115: after the loop, ConnectionError is raised.
Exhausted(f) == [f EXCEPT !.pc = "raised", !.exc = "ConnectionError"]

\* fetch_url, line 103: the for loop goes on to the next strategy, or ends.
NextStrategy(f) ==
    IF f.i = Len(strategies)
    THEN Exhausted(f)
    ELSE [f EXCEPT !.pc = "probe", !.i = f.i + 1]

\* A mutant of AfterProbe: an unavailable strategy is not skipped.
AfterProbeNoSkip(f, ret) ==
    IF ret = "AttributeError"
    THEN [f EXCEPT !.pc = "raised", !.exc = "AttributeError"]
    ELSE [f EXCEPT !.pc = "fetch"]

\* fetch_url, lines 104-105: what follows strategy.is_available() returning
\* ret: an exception leaves the call, False skips the strategy, True goes on
\* to its fetch.
AfterProbe(f, ret) ==
    IF ret = "AttributeError"
    THEN [f EXCEPT !.pc = "raised", !.exc = "AttributeError"]
    ELSE IF ret = "False"
    THEN NextStrategy(f)
    ELSE [f EXCEPT !.pc = "fetch"]

\* fetch_url, lines 108-111: what follows strategy.fetch_url returning body.
AfterFetch(f, body) ==
    IF ~IsNone(body)
    THEN [f EXCEPT !.pc = "returned", !.result = body]
    ELSE NextStrategy([f EXCEPT !.errors =
                          Append(@, "WifiStrategy failed to fetch")])

\* WifiStrategy.fetch_url (lines 68-77) at clock reading t: is_available is
\* asked again; got is what the GET of the URL yields, None for a failure.
WifiFetchUrl(s, t, up, got) ==
    LET a == WifiIsAvailable(s, t, up)
    IN [s |-> a.s,
        ret |-> IF a.ret = "AttributeError" THEN "AttributeError"
                ELSE IF a.ret = "False" \/ IsNone(got) THEN "None"
                ELSE Val(got),
        body |-> IF a.ret = "True" THEN got ELSE None]

\* ------------------------------------------------------ TleRepositoryUtils

\* TleRepositoryUtils.fetch_and_store_group: the body is a docstring followed
\* by comments only, so the call fetches nothing, stores nothing and returns.
FetchAndStoreGroup(rows) ==
    [raised |-> FALSE, fetched |-> FALSE, stored |-> FALSE, rows |-> rows]

\* ---------------------------------------------------- TleSchedulerService

\* A mutant of Due: the interval is not waited for.
DueAtOnce(last, t) == IsNone(last) \/ t - Val(last) >= 0

\* The condition of the if in _run: never fetched, or the interval has passed.
Due(last, t) == IsNone(last) \/ t - Val(last) >= Interval

\* threading.Thread.is_alive: started and not yet finished.
Alive(t) == threads[t].pc \in {"top", "cycle"}

\* What one fetch cycle did: out is "none" (no cycle since the last wake), "called"
\* (fetch_and_store_group returned), "noconn" (no connection available) or
\* "error" (an exception was caught); fetched and stored tell whether the
\* group text was retrieved and whether it was written to the table.
NoCycle == [out |-> "none", fetched |-> FALSE, stored |-> FALSE]
CycleOf(r) == [out |-> IF r.raised THEN "error" ELSE "called",
               fetched |-> r.fetched, stored |-> r.stored]
CycleOut(o) == [out |-> o, fetched |-> FALSE, stored |-> FALSE]

ThreadInit == [pc |-> "new", wake |-> 0, cyc |-> NoCycle]
CallerInit == [pc |-> "idle", init |-> FALSE, ret |-> "none", target |-> None,
               cyc |-> NoCycle]

\* A caller context whose call has ended: ret is the line the call returned
\* from (line_59: start fell through its if; line_67: start started a thread;
\* line_71: stop found no thread; line_73: stop joined one) or the exception
\* the call raised, with the line that raised it.
Returned(r) == [CallerInit EXCEPT !.ret = r]

\* Thread objects created so far, and start() calls that may still create one.
Created == {t \in ThreadIds : threads[t].pc # "new"}
Creating == {c \in CallerIds : callers[c].pc \in {"start_62", "start_64", "start_65"}}

SchedFrame == UNCHANGED <<fu, ia, probes, rc, ended, nrepo, pt, fn, app, tg, xc>>
SameCalls == UNCHANGED <<ncalls>>

\* A start() call may begin: the caller is free, fewer than MaxCalls calls were
\* made, and fewer than MaxThreads Thread objects exist or are about to.
MayStart(c) ==
    /\ callers[c].pc = "idle"
    /\ ncalls < MaxCalls
    /\ Cardinality(Created) + Cardinality(Creating) < MaxThreads

\* A mutant of StartCheck: the test of line 59 is missing.
StartUnguarded(c, initial_fetch) ==
    /\ MayStart(c)
    /\ callers' = [callers EXCEPT ![c] =
          [CallerInit EXCEPT !.pc = IF initial_fetch THEN "start_62" ELSE "start_64"]]
    /\ ncalls' = ncalls + 1
    /\ UNCHANGED <<now, strategies, repo, stop_event, thread_ref,
                   last_fetch_time, threads>>
    /\ SchedFrame

\* A mutant of StartCheck: a scheduler that has a thread is never started
\* again (the test of line 59 without its is_alive part).
StartOnce(c, initial_fetch) ==
    /\ MayStart(c)
    /\ callers' = [callers EXCEPT ![c] =
          IF IsNone(thread_ref)
          THEN [CallerInit EXCEPT
                   !.pc = IF initial_fetch THEN "start_62" ELSE "start_64"]
          ELSE Returned("line_59")]
    /\ ncalls' = ncalls + 1
    /\ UNCHANGED <<now, strategies, repo, stop_event, thread_ref,
                   last_fetch_time, threads>>
    /\ SchedFrame

\* A caller context calls start(initial_fetch); line 59:
\* if self._thread is None or not self._thread.is_alive()
StartCheck(c, initial_fetch) ==
    /\ MayStart(c)
    /\ callers' = [callers EXCEPT ![c] =
          IF IsNone(thread_ref) \/ ~Alive(Val(thread_ref))
          THEN [CallerInit EXCEPT
                   !.pc = IF initial_fetch THEN "start_62" ELSE "start_64"]
          ELSE Returned("line_59")]
    /\ ncalls' = ncalls + 1
    /\ UNCHANGED <<now, strategies, repo, stop_event, thread_ref,
                   last_fetch_time, threads>>
    /\ SchedFrame

\* start, line 62: _do_initial_fetch (lines 41-51), in the caller's context.
DoInitialFetch(c) ==
    /\ callers[c].pc = "start_62"
    /\ LET r == FetchAndStoreGroup(repo)
       IN /\ repo' = r.rows
          /\ last_fetch_time' = IF r.raised THEN None ELSE Some(now)
          /\ callers' = [callers EXCEPT ![c] =
                           [@ EXCEPT !.pc = "start_64", !.cyc = CycleOf(r)]]
    /\ UNCHANGED <<now, strategies, stop_event, thread_ref, threads>>
    /\ SchedFrame /\ SameCalls

\* start, line 64: self._stop_event.clear()
StartClear(c) ==
    /\ callers[c].pc = "start_64"
    /\ stop_event' = FALSE
    /\ callers' = [callers EXCEPT ![c].pc = "start_65"]
    /\ UNCHANGED <<now, strategies, repo, thread_ref, last_fetch_time,
                   threads>>
    /\ SchedFrame /\ SameCalls

\* start, line 65: self._thread = threading.Thread(target=self._run, ...)
StartCreate(c) ==
    /\ callers[c].pc = "start_65"
    /\ LET t == CHOOSE x \in ThreadIds :
                    threads[x].pc = "new" /\ \A y \in 1..(x - 1) : threads[y].pc # "new"
       IN /\ threads' = [threads EXCEPT ![t].pc = "created"]
          /\ thread_ref' = Some(t)
    /\ callers' = [callers EXCEPT ![c].pc = "start_66"]
    /\ UNCHANGED <<now, strategies, repo, stop_event, last_fetch_time>>
    /\ SchedFrame /\ SameCalls

\* start, lines 66-67: self._thread.start().  The attribute is read again:
\* Thread.start raises RuntimeError on a thread that was already started.
StartThread(c) ==
    /\ callers[c].pc = "start_66"
    /\ LET t == Val(thread_ref)
       IN IF threads[t].pc = "created"
          THEN /\ threads' = [threads EXCEPT ![t].pc = "top"]
               /\ callers' = [callers EXCEPT ![c] = Returned("line_67")]
          ELSE /\ threads' = threads
               /\ callers' = [callers EXCEPT ![c] = Returned("RuntimeError_66")]
    /\ UNCHANGED <<now, strategies, repo, stop_event, thread_ref,
                   last_fetch_time>>
    /\ SchedFrame /\ SameCalls

\* A mutant of StopSet: the flag is set only when a loop thread is alive.
StopSetIfRunning(c) ==
    /\ callers[c].pc = "idle"
    /\ ncalls < MaxCalls
    /\ ncalls' = ncalls + 1
    /\ stop_event' = IF \E t \in ThreadIds : Alive(t) THEN TRUE ELSE stop_event
    /\ callers' = [callers EXCEPT ![c] = [CallerInit EXCEPT !.pc = "stop_71"]]
    /\ UNCHANGED <<now, strategies, repo, thread_ref, last_fetch_time,
                   threads>>
    /\ SchedFrame

\* A caller context calls stop(); line 70: self._stop_event.set()
StopSet(c) ==
    /\ callers[c].pc = "idle"
    /\ ncalls < MaxCalls
    /\ ncalls' = ncalls + 1
    /\ stop_event' = TRUE
    /\ callers' = [callers EXCEPT ![c] = [CallerInit EXCEPT !.pc = "stop_71"]]
    /\ UNCHANGED <<now, strategies, repo, thread_ref, last_fetch_time,
                   threads>>
    /\ SchedFrame

\* stop, line 71: if self._thread
StopCheck(c) ==
    /\ callers[c].pc = "stop_71"
    /\ callers' = [callers EXCEPT ![c] =
          IF IsNone(thread_ref)
          THEN Returned("line_71")
          ELSE [@ EXCEPT !.pc = "stop_72"]]
    /\ UNCHANGED <<now, strategies, repo, stop_event, thread_ref,
                   last_fetch_time, threads>>
    /\ SchedFrame /\ SameCalls

\* stop, line 72: self._thread.join() is entered.  Thread.join raises
\* RuntimeError on a thread that was not started yet.
StopJoin(c) ==
    /\ callers[c].pc = "stop_72"
    /\ callers' = [callers EXCEPT ![c] =
          IF threads[Val(thread_ref)].pc = "created"
          THEN Returned("RuntimeError_72")
          ELSE [@ EXCEPT !.pc = "stop_join", !.target = thread_ref]]
    /\ UNCHANGED <<now, strategies, repo, stop_event, thread_ref,
                   last_fetch_time, threads>>
    /\ SchedFrame /\ SameCalls

\* stop, lines 72-73: join() returns once the joined thread has finished.
StopReturn(c) ==
    /\ callers[c].pc = "stop_join"
    /\ threads[Val(callers[c].target)].pc = "done"
    /\ callers' = [callers EXCEPT ![c] = Returned("line_73")]
    /\ UNCHANGED <<now, strategies, repo, stop_event, thread_ref,
                   last_fetch_time, threads>>
    /\ SchedFrame /\ SameCalls

\* _run, lines 22-26 and 39: the thread is at the top of its loop, where it
\* arrives when started and after the sleep of line 39 (wake is when that
\* sleep ends).  The while condition, then the test whether a fetch is due;
\* when it is not, the thread sleeps again.
LoopCheck(t) ==
    /\ threads[t].pc = "top"
    /\ now >= threads[t].wake
    /\ threads' = [threads EXCEPT ![t] =
          IF stop_event
          THEN [@ EXCEPT !.pc = "done", !.wake = 0, !.cyc = NoCycle]
          ELSE IF Due(last_fetch_time, now)
               THEN [@ EXCEPT !.pc = "cycle", !.wake = 0, !.cyc = NoCycle]
               ELSE [@ EXCEPT !.wake = now + SleepSeconds, !.cyc = NoCycle]]
    /\ UNCHANGED <<now, strategies, repo, stop_event, thread_ref,
                   last_fetch_time, callers>>
    /\ SchedFrame /\ SameCalls

\* Whether the cycle goes on to fetch_and_store_group (line 28).
Proceed(ret) == ret = "True"

\* _run, line 39: the thread goes to sleep, its cycle having ended as cyc.
Sleeping(th, cyc) ==
    [th EXCEPT !.pc = "top", !.wake = now + SleepSeconds, !.cyc = cyc]

\* A mutant of Caught: the exception leaves _run and ends the thread.
Uncaught(th) == [th EXCEPT !.pc = "done", !.cyc = CycleOut("error")]

\* _run, lines 36-39: except Exception prints the error, and the loop goes on
\* to its sleep.
Caught(th) == Sleeping(th, CycleOut("error"))

\* _run, lines 27-39: the fetch cycle, then the thread goes to sleep.  up[i]
\* tells whether strategy i's test_url can be reached during the cycle.
LoopCycle(t, up) ==
    /\ threads[t].pc = "cycle"
    /\ LET a == ManagerIsAvailable(strategies, now, up)
       IN IF Proceed(a.ret)
          THEN LET r == FetchAndStoreGroup(repo)
               IN /\ strategies' = a.ss
                  /\ repo' = r.rows
                  /\ last_fetch_time' =
                        IF r.raised THEN last_fetch_time ELSE Some(now)
                  /\ threads' = [threads EXCEPT ![t] =
                        IF r.raised THEN Caught(@) ELSE Sleeping(@, CycleOf(r))]
          ELSE IF a.ret = "False"
          THEN LET g == GetConnectionStatus(a.ss, now, up)
               IN /\ strategies' = g.ss
                  /\ threads' = [threads EXCEPT ![t] =
                        IF g.ret = "ok" THEN Sleeping(@, CycleOut("noconn"))
                                        ELSE Caught(@)]
                  /\ UNCHANGED <<repo, last_fetch_time>>
          ELSE /\ strategies' = a.ss
               /\ threads' = [threads EXCEPT ![t] = Caught(@)]
               /\ UNCHANGED <<repo, last_fetch_time>>
    /\ UNCHANGED <<now, stop_event, thread_ref, callers>>
    /\ SchedFrame /\ SameCalls

\* ------------------------------------------- calls of ConnectionManager.fetch_url

FetchFrame == UNCHANGED <<repo, stop_event, thread_ref, last_fetch_time,
                          threads, callers, ncalls, ia, probes,
                          rc, ended, nrepo, pt, fn, app, tg, xc>>

\* fetch_url is called (lines 99-103): errors = [], the loop starts.
FuCall ==
    /\ fu.pc \in {"idle", "returned", "raised"}
    /\ fu' = [FuInit EXCEPT !.pc = "probe", !.i = 1]
    /\ UNCHANGED <<now, strategies>>
    /\ FetchFrame

\* fetch_url, lines 104-105: strategy.is_available(); up tells whether the
\* strategy's test_url can be reached.
FuProbe(up) ==
    /\ fu.pc = "probe"
    /\ LET r == WifiIsAvailable(strategies[fu.i], now, up)
       IN /\ strategies' = [strategies EXCEPT ![fu.i] = r.s]
          /\ fu' = AfterProbe([fu EXCEPT !.log =
                                  Append(@, <<"is_available", fu.i, r.ret>>)],
                              r.ret)
    /\ UNCHANGED <<now>>
    /\ FetchFrame

\* fetch_url, lines 107-111: strategy.fetch_url(url, params, timeout); up
\* tells whether the strategy's test_url can be reached, and the GET of the
\* URL yields a body or fails.
FuFetch(up, got) ==
    /\ fu.pc = "fetch"
    /\ LET r == WifiFetchUrl(strategies[fu.i], now, up, got)
           f == [fu EXCEPT !.log = Append(@, <<"fetch_url", fu.i, r.ret>>)]
       IN /\ strategies' = [strategies EXCEPT ![fu.i] = r.s]
          /\ fu' = IF r.ret = "AttributeError"
                   THEN [f EXCEPT !.pc = "raised", !.exc = "AttributeError"]
                   ELSE AfterFetch(f, r.body)
    /\ UNCHANGED <<now>>
    /\ FetchFrame

\* ---------------------------------------- calls of WifiStrategy.is_available

\* One context's call of is_available on the strategy strategies[1]: t is the
\* local now of line 48, k the index in probes of the GET it issued, cached
\* tells whether the call returned at line 50.
IaInit == [pc |-> "idle", t |-> 0, k |-> 0, cached |-> FALSE, ret |-> "none"]

StatusRet(o) == IF IsNone(o) THEN "AttributeError"
                ELSE IF Val(o) THEN "True" ELSE "False"

WifiFrame == UNCHANGED <<repo, stop_event, thread_ref, last_fetch_time,
                         threads, callers, ncalls, fu, rc, ended, nrepo, pt, fn,
                         app, tg, xc>>

\* is_available, lines 48-50 and the start of line 53: the clock is read, the
\* cached status is returned when it is fresh, else the GET is issued.
IaCheck(c) ==
    /\ ia[c].pc = "idle"
    /\ Len(probes) < MaxProbes
    /\ IF CacheFresh(strategies[1], now)
       THEN /\ ia' = [ia EXCEPT ![c] =
                        [pc |-> "idle", t |-> now, k |-> 0, cached |-> TRUE,
                         ret |-> StatusRet(strategies[1].last_status)]]
            /\ UNCHANGED probes
       ELSE /\ ia' = [ia EXCEPT ![c] =
                        [pc |-> "get", t |-> now, k |-> Len(probes) + 1,
                         cached |-> FALSE, ret |-> "none"]]
            /\ probes' = Append(probes, [at |-> now, status |-> None])
    /\ UNCHANGED <<now, strategies>>
    /\ WifiFrame

\* is_available, lines 53-59: the GET answers or fails, _last_status is
\* stored, _last_check_time takes the clock reading of line 48.
IaProbe(c, up) ==
    /\ ia[c].pc = "get"
    /\ strategies' = [strategies EXCEPT ![1] =
                         [last_check_time |-> ia[c].t, last_status |-> Some(up)]]
    /\ probes' = [probes EXCEPT ![ia[c].k].status = Some(up)]
    /\ ia' = [ia EXCEPT ![c].pc = "idle", ![c].ret = StatusRet(Some(up))]
    /\ UNCHANGED <<now>>
    /\ WifiFrame

\* --------------------------------------------------- SqliteTleRepository
\* The repository is built without a connection (app.py line 14, main.py
\* line 86), so every call opens its own connection with get_db_connection
\* and closes it at the end.  repo holds the committed database; a
\* transaction's changes are private to its connection until the commit.

\* The (name, line1, line2) triples given to upsert_tles, and the sources.
TleA == <<"ISS", "1 a", "2 a">>
TleB == <<"HST", "1 b", "2 b">>
Tles == {TleA, TleB}
Sources == {"celestrak:x", "celestrak:y"}
Batches == UNION {[1..n -> Tles] : n \in 0..MaxBatch}

\* datetime.now(timezone.utc).isoformat() at clock reading t.  Column
\* fetched_at holds either such a timestamp or another text.
IsoFormat(t) == <<"iso", t>>
Text(v) == <<"text", v>>

\* The database file: the rows of table tles in insertion order, and the
\* last id AUTOINCREMENT gave out (table sqlite_sequence).
DbInit == [tles |-> <<>>, sqlite_sequence |-> 0]

\* UNIQUE(name, line1, line2)
Identity(row) == <<row.name, row.line1, row.line2>>
Conflicts(tbl, d) == {i \in DOMAIN tbl : Identity(tbl[i]) = <<d[1], d[2], d[3]>>}

\* A new row of table tles with the given id.
Row(id, d) ==
    [id |-> id, name |-> d[1], line1 |-> d[2], line2 |-> d[3],
     source |-> d[4], fetched_at |-> d[5]]

\* A plain INSERT, without the ON CONFLICT clause and the UNIQUE index.
InsertOnly(db, d) ==
    LET id == db.sqlite_sequence + 1
    IN [tles |-> Append(db.tles, Row(id, d)), sqlite_sequence |-> id]

\* ON CONFLICT ... DO NOTHING: the stored row keeps its provenance.
InsertOrIgnore(db, d) ==
    LET id == db.sqlite_sequence + 1
    IN IF Conflicts(db.tles, d) # {}
       THEN [db EXCEPT !.sqlite_sequence = id]
       ELSE [tles |-> Append(db.tles, Row(id, d)), sqlite_sequence |-> id]

\* INSERT OR REPLACE: the stored row is deleted and the triple stored again
\* under the next id.
InsertOrReplace(db, d) ==
    LET id == db.sqlite_sequence + 1
        Kept(row) == Identity(row) # <<d[1], d[2], d[3]>>
    IN [tles |-> Append(SelectSeq(db.tles, Kept), Row(id, d)),
        sqlite_sequence |-> id]

\* UPSERT_SQL run with the parameters d = (name, l1, l2, source, now): a new
\* row, or on conflict source = excluded.source, fetched_at = excluded.source.
\* id is INTEGER PRIMARY KEY AUTOINCREMENT (schema.py): the statement takes
\* the next id of the sequence before the conflict is found, so an upsert
\* of a stored triple uses up an id without storing a row under it.
UpsertSql(db, d) ==
    LET id == db.sqlite_sequence + 1
    IN IF Conflicts(db.tles, d) # {}
       THEN LET i == CHOOSE j \in Conflicts(db.tles, d) : TRUE
            IN [tles |-> [db.tles EXCEPT ![i].source = d[4],
                                         ![i].fetched_at = Text(d[4])],
                sqlite_sequence |-> id]
       ELSE [tles |-> Append(db.tles, Row(id, d)), sqlite_sequence |-> id]

\* data_to_insert (lines 133-135)
DataToInsert(tles, source, ts) ==
    [i \in DOMAIN tles |-> <<tles[i][1], tles[i][2], tles[i][3], source, ts>>]

\* cur.executemany(UPSERT_SQL, data) on database db, from row k on
RECURSIVE ExecuteMany(_, _, _)
ExecuteMany(db, data, k) ==
    IF k > Len(data) THEN db
    ELSE ExecuteMany(UpsertSql(db, data[k]), data, k + 1)

\* One context's upsert_tles call under way: k is the number of rows
\* executemany has run, pending the database as the open transaction sees
\* it, pre the committed database when the transaction began.
RcInit == [pc |-> "idle", data |-> <<>>, ts |-> 0, k |-> 0,
           pending |-> DbInit, pre |-> DbInit]

\* The call that ended last: its method, whether it returned or raised,
\* what it returned, for upsert_tles its rows, the table it found and
\* whether it committed, for a read whether it ran while another context's
\* transaction was open.
EndedInit == [op |-> "none", outcome |-> "none", result |-> <<>>,
              data |-> <<>>, pre |-> DbInit, committed |-> FALSE,
              mid |-> FALSE]

RepoFrame == UNCHANGED <<strategies, stop_event, thread_ref,
                         last_fetch_time, threads, callers, ncalls, fu,
                         ia, probes, pt, fn, app, tg, xc>>

\* Context c may call a method of the repository.
MayCall(c) == rc[c].pc = "idle" /\ nrepo < MaxRepoCalls

\* The contexts whose connection holds an open write transaction.
InTransaction == {w \in CallerIds : rc[w].pc = "execute" /\ rc[w].k > 0}

\* upsert_tles ends: the exception of the try is caught (line 138), the
\* connection is closed (finally), which rolls back what was not committed.
UpsertEnd(r, outcome, committed) ==
    IF committed
    THEN [EndedInit EXCEPT !.op = "upsert_tles", !.outcome = outcome,
                           !.data = r.data, !.pre = r.pre, !.committed = TRUE]
    ELSE [EndedInit EXCEPT !.op = "upsert_tles", !.outcome = outcome]

\* A read ends with its result.
ReadEnd(op, outcome, result, mid) ==
    [EndedInit EXCEPT !.op = op, !.outcome = outcome, !.result = result,
                      !.mid = mid]

\* A SELECT sees another connection's open transaction, were there one (no
\* isolation between connections).
DirtySnapshot(c) ==
    IF InTransaction # {}
    THEN rc[CHOOSE w \in InTransaction : TRUE].pending.tles
    ELSE repo.tles

\* The rows a SELECT run on context c's fresh connection sees: the committed
\* ones (c has no open transaction of its own: the connection is new).
Snapshot(c) == repo.tles

\* upsert_tles, lines 128-136, up to the first row of executemany.
\* _get_conn() is outside the try: opened tells whether get_db_connection
\* succeeded, and its exception is not caught.  The first statement begins
\* the transaction, which needs the write lock; ok tells whether it
\* succeeded (it fails when another connection holds the lock until the
\* timeout, or on any other storage failure).  The clock has advanced since
\* the call before: every call reads a later time.
UpsertTles(c, tles, source, opened, ok) ==
    /\ MayCall(c)
    /\ nrepo' = nrepo + 1
    /\ (opened /\ ok /\ tles # <<>>) => InTransaction = {}
    /\ LET r == [RcInit EXCEPT !.pc = "execute", !.ts = now,
                    !.data = DataToInsert(tles, source, IsoFormat(now))]
       IN IF ~opened
          THEN ended' = UpsertEnd(r, "raised", FALSE) /\ UNCHANGED rc
          ELSE IF tles = <<>>
          THEN rc' = [rc EXCEPT ![c] = r] /\ UNCHANGED ended
          ELSE IF ~ok
          THEN ended' = UpsertEnd(r, "returned", FALSE) /\ UNCHANGED rc
          ELSE /\ rc' = [rc EXCEPT ![c] =
                           [r EXCEPT !.k = 1, !.pre = repo,
                                     !.pending = UpsertSql(repo, r.data[1])]]
               /\ UNCHANGED ended
    /\ now' = now + 1
    /\ UNCHANGED <<repo>>
    /\ RepoFrame

\* upsert_tles, line 136: executemany runs the statement for the next row,
\* inside the open transaction; ok tells whether it succeeded.
ExecuteRow(c, ok) ==
    /\ rc[c].pc = "execute"
    /\ 0 < rc[c].k /\ rc[c].k < Len(rc[c].data)
    /\ IF ok
       THEN /\ rc' = [rc EXCEPT ![c].k = rc[c].k + 1,
                                ![c].pending = UpsertSql(rc[c].pending,
                                                   rc[c].data[rc[c].k + 1])]
            /\ UNCHANGED ended
       ELSE /\ rc' = [rc EXCEPT ![c] = RcInit]
            /\ ended' = UpsertEnd(rc[c], "returned", FALSE)
    /\ UNCHANGED <<now, repo, nrepo>>
    /\ RepoFrame

\* upsert_tles, lines 137-145: conn.commit() publishes the transaction's
\* rows at once, or fails and the close rolls them back; the call returns.
Commit(c, ok) ==
    /\ rc[c].pc = "execute"
    /\ rc[c].k = Len(rc[c].data)
    /\ IF ok /\ rc[c].k > 0
       THEN repo' = rc[c].pending
       ELSE UNCHANGED <<repo>>
    /\ rc' = [rc EXCEPT ![c] = RcInit]
    /\ ended' = UpsertEnd(rc[c], "returned", ok)
    /\ UNCHANGED <<now, nrepo>>
    /\ RepoFrame

\* fetch_all_tles, lines 99-126: _get_conn() outside the try; the SELECT
\* returns every row, and an exception in the try returns [].
FetchAllTles(c, opened, ok) ==
    /\ MayCall(c)
    /\ nrepo' = nrepo + 1
    /\ ended' = IF ~opened THEN ReadEnd("fetch_all_tles", "raised", <<>>, FALSE)
                ELSE IF ~ok
                THEN ReadEnd("fetch_all_tles", "returned", <<>>, FALSE)
                ELSE ReadEnd("fetch_all_tles", "returned", Snapshot(c),
                             InTransaction # {})
    /\ UNCHANGED <<now, repo, rc>>
    /\ RepoFrame

\* fetch_satellite_by_id, lines 61-97: the row with that id or None; an
\* exception in the try returns None.
FetchSatelliteById(c, satellite_id, opened, ok) ==
    /\ MayCall(c)
    /\ nrepo' = nrepo + 1
    /\ LET rows == Snapshot(c)
           hit == {i \in DOMAIN rows : rows[i].id = satellite_id}
           op == "fetch_satellite_by_id"
       IN ended' = IF ~opened THEN ReadEnd(op, "raised", None, FALSE)
                   ELSE IF ~ok \/ hit = {}
                   THEN ReadEnd(op, "returned", None, FALSE)
                   ELSE ReadEnd(op, "returned",
                                Some(rows[CHOOSE i \in hit : TRUE]), FALSE)
    /\ UNCHANGED <<now, repo, rc>>
    /\ RepoFrame

\* ------------------------------- SqliteTleRepository on one connection
\* A repository used by one context, call after call: constructed with
\* conn = None it opens a connection per call (_get_conn returns it with
\* close_conn = True), constructed with a connection it runs every call on
\* that one and never closes it.

\* __init__, lines 52-54: external tells whether conn was given; pending is
\* the database as the transaction open on that connection sees it, or None
\* when no transaction is open.
XcInit(external) == [external |-> external, pending |-> None]

\* The database as the connection of the next call sees it: a connection
\* sees the rows of its own open transaction.
ConnView ==
    IF xc.external /\ ~IsNone(xc.pending) THEN Val(xc.pending) ELSE repo

\* lines 138-145 after a failure: the exception is caught and printed; a
\* connection of the call's own is closed, which rolls its transaction back,
\* and the external connection is left as it is, its transaction open.
AfterFailure(close_conn, db) ==
    IF close_conn \/ db = repo THEN None ELSE Some(db)

ConnFrame == UNCHANGED <<strategies, stop_event, thread_ref,
                         last_fetch_time, threads, callers, ncalls, fu,
                         ia, probes, rc, pt, fn, app, tg>>

\* upsert_tles, lines 128-145, as one call: executemany stores the first k
\* rows and fails on the next one if k is less than their number; ok tells
\* whether conn.commit() succeeded.
UpsertTlesOn(tles, source, k, ok) ==
    /\ nrepo < MaxRepoCalls
    /\ nrepo' = nrepo + 1
    /\ k \in 0..Len(tles)
    /\ LET data == DataToInsert(tles, source, IsoFormat(now))
           db == ExecuteMany(ConnView, SubSeq(data, 1, k), 1)
           r == [RcInit EXCEPT !.data = data, !.pre = repo]
       IN IF k = Len(tles) /\ ok
          THEN /\ repo' = db
               /\ xc' = [xc EXCEPT !.pending = None]
               /\ ended' = UpsertEnd(r, "returned", TRUE)
          ELSE /\ xc' = [xc EXCEPT !.pending = AfterFailure(~xc.external, db)]
               /\ ended' = UpsertEnd(r, "returned", FALSE)
               /\ UNCHANGED repo
    /\ now' = now + 1
    /\ ConnFrame

\* fetch_all_tles, lines 99-126, as one call on the repository's connection
FetchAllTlesOn(ok) ==
    /\ nrepo < MaxRepoCalls
    /\ nrepo' = nrepo + 1
    /\ ended' = IF ok THEN ReadEnd("fetch_all_tles", "returned",
                                   ConnView.tles, FALSE)
                ELSE ReadEnd("fetch_all_tles", "returned", <<>>, FALSE)
    /\ UNCHANGED <<now, repo, xc>>
    /\ ConnFrame

\* ------------------------------------------- SqliteTleRepository.parse_tles
\* A line is the sequence of its fields, the pieces between single spaces:
\* "1 a" is <<"1", "a">>, "ISS" is <<"ISS">>, the empty line is <<"">>.  A
\* text is the sequence of its lines, as text.splitlines() yields them.

LineSet == {<<"ISS">>, <<"1", "a">>, <<"2", "a">>, <<"1", "b">>, <<"2", "b">>,
            <<"">>}
Texts == UNION {[1..n -> LineSet] : n \in 0..MaxLines}
\* The texts of the calls followed iteration by iteration.
LoopTexts == UNION {[1..n -> LineSet] : n \in 0..MaxLoopLines}

\* l.strip() == ''
Blank(l) == \A k \in DOMAIN l : l[k] = ""

\* l.startswith(d + ' ')
StartsWith(l, d) == Len(l) >= 2 /\ l[1] = d

\* line 152: the lines of the text that are not blank
NonBlank(l) == ~Blank(l)
Lines(text) == SelectSeq(text, NonBlank)

\* The loop restarts one line after a group it has appended.
AfterGroupByOne(i) == i + 1

\* line 169: i += 3
AfterGroup(i) == i + 3

\* The while loop of lines 155-173, at index i (from 0, as in the source:
\* lines[i] of the source is lines[i + 1] here) with the triples tles.
RECURSIVE ParseLoop(_, _, _)
ParseLoop(lines, i, tles) ==
    IF ~(i < Len(lines) - 1) THEN tles
    ELSE IF StartsWith(lines[i + 1], "1") /\ i >= 1
    THEN ParseLoop(lines, i + 2,
                   Append(tles, <<lines[i], lines[i + 1],
                                  IF i + 1 < Len(lines) THEN lines[i + 2]
                                                        ELSE <<"">> >>))
    ELSE IF i + 2 < Len(lines)
    THEN IF StartsWith(lines[i + 2], "1") /\ StartsWith(lines[i + 3], "2")
         THEN ParseLoop(lines, AfterGroup(i),
                        Append(tles, <<lines[i + 1], lines[i + 2], lines[i + 3]>>))
         ELSE ParseLoop(lines, i + 1, tles)
    ELSE tles

\* parse_tles(text)
ParseTles(text) == ParseLoop(Lines(text), 0, <<>>)

\* One call of parse_tles: its text, the triples it returned, and for a call
\* followed line by line its lines, its index i and the number n of
\* iterations of the while loop begun so far.
PtInit(text) == [pc |-> "idle", text |-> text, tles |-> <<>>,
                 lines |-> <<>>, i |-> 0, n |-> 0]

PureFrame == UNCHANGED <<now, strategies, repo, stop_event, thread_ref,
                         last_fetch_time, threads, callers, ncalls, fu,
                         ia, probes, rc, ended, nrepo, app, tg, xc>>

\* parse_tles is called with the text and returns its triples.
ParseTlesCall ==
    /\ pt.pc = "idle"
    /\ pt' = [pt EXCEPT !.pc = "returned", !.tles = ParseTles(pt.text)]
    /\ UNCHANGED fn
    /\ PureFrame

\* The loop stays at the line it could not use.
Stay(i) == i

\* line 171: i += 1
Skip(i) == i + 1

\* One iteration of the while loop, lines 156-173, at index i (from 0): the
\* index and the triples after it, and whether it left the loop by break.
WhileBody(lines, i, tles) ==
    IF StartsWith(lines[i + 1], "1") /\ i >= 1
    THEN [i |-> i + 2,
          tles |-> Append(tles, <<lines[i], lines[i + 1],
                                  IF i + 1 < Len(lines) THEN lines[i + 2]
                                                        ELSE <<"">> >>),
          break |-> FALSE]
    ELSE IF i + 2 < Len(lines)
    THEN IF StartsWith(lines[i + 2], "1") /\ StartsWith(lines[i + 3], "2")
         THEN [i |-> AfterGroup(i),
               tles |-> Append(tles, <<lines[i + 1], lines[i + 2],
                                       lines[i + 3]>>),
               break |-> FALSE]
         ELSE [i |-> Skip(i), tles |-> tles, break |-> FALSE]
    ELSE [i |-> i, tles |-> tles, break |-> TRUE]

\* parse_tles, lines 152-154: the non-blank lines, tles = [], i = 0
ParseBegin ==
    /\ pt.pc = "idle"
    /\ pt' = [pt EXCEPT !.pc = "while", !.lines = Lines(pt.text)]
    /\ UNCHANGED fn
    /\ PureFrame

\* line 155: the test of the while loop, and one iteration of its body; the
\* call returns tles (line 174) when the test fails or the body breaks.
ParseWhile ==
    /\ pt.pc = "while"
    /\ IF ~(pt.i < Len(pt.lines) - 1)
       THEN pt' = [pt EXCEPT !.pc = "returned"]
       ELSE LET b == WhileBody(pt.lines, pt.i, pt.tles)
            IN pt' = [pt EXCEPT !.i = b.i, !.tles = b.tles, !.n = pt.n + 1,
                                !.pc = IF b.break THEN "returned" ELSE "while"]
    /\ UNCHANGED fn
    /\ PureFrame

\* ------------------------------------------------- Sgp4SatelliteService
\* What the propagator makes of a stored record at the time of the call:
\* satrec tells whether Satrec.twoline2rv built a satrec (else
\* _satrec_from_tle returns None), error is the code satrec.sgp4 returns,
\* dist the distance from the user that lines 42-46 compute from the
\* position.

ErrorCodes == {0, 1}
CatalogRecords == [satrec : BOOLEAN, error : ErrorCodes, dist : 1..MaxDist]
\* What it makes of a catalog of n records.
Catalogs(n) == [1..n -> CatalogRecords]

\* The k-th triple of the stored catalog, and the database that holds the
\* first n of them, upserted in one batch.
CatalogTle(k) == <<<<"SAT", k>>, <<"1", k>>, <<"2", k>>>>
Stored(n) ==
    ExecuteMany(DbInit,
                DataToInsert([k \in 1..n |-> CatalogTle(k)], "celestrak:x",
                             IsoFormat(0)), 1)

\* The rows fetch_all_tles returned, each with what the propagator makes
\* of it.
Catalog(rows, sgp4) ==
    [k \in DOMAIN rows |->
        [id |-> rows[k].id, name |-> rows[k].name,
         satrec |-> sgp4[k].satrec, error |-> sgp4[k].error,
         dist |-> sgp4[k].dist]]

\* A record is a candidate whenever a satrec was built, whatever the code.
PropagatedIgnoringError(tle) == tle.satrec

\* lines 33-41: the record is not skipped
Propagated(tle) == tle.satrec /\ tle.error = 0

\* A candidate at the same distance replaces the best one.
CloserOrEqual(dist, best_dist) == dist <= best_dist

\* line 47: if dist < best_dist
Closer(dist, best_dist) == dist < best_dist

\* The for loop of lines 32-59 from record k on; best is None or the id and
\* distance of the nearest candidate so far (best_dist is inf with None).
RECURSIVE NearestFrom(_, _, _)
NearestFrom(tles, k, best) ==
    IF k > Len(tles) THEN best
    ELSE IF Propagated(tles[k])
              /\ (IsNone(best) \/ Closer(tles[k].dist, Val(best).distance_km))
         THEN NearestFrom(tles, k + 1,
                          Some([id |-> tles[k].id,
                                distance_km |-> tles[k].dist]))
         ELSE NearestFrom(tles, k + 1, best)

\* A record without satrec is left out of the list.
StateOrNothing(tle) ==
    IF tle.satrec
    THEN <<[id |-> tle.id, name |-> tle.name, sgp4_error |-> tle.error]>>
    ELSE <<>>

\* lines 68-86: the entry of one record, as a list of one entry
StateOf(tle) ==
    IF tle.satrec
    THEN <<[id |-> tle.id, name |-> tle.name, sgp4_error |-> tle.error]>>
    ELSE <<[id |-> tle.id, name |-> tle.name, error |-> "invalid_tle"]>>

\* The for loop of lines 67-86 from record k on.
RECURSIVE StatesFrom(_, _, _)
StatesFrom(tles, k, results) ==
    IF k > Len(tles) THEN results
    ELSE StatesFrom(tles, k + 1, results \o StateOf(tles[k]))

\* One call of the service: the method, the catalog it fetched, and what it
\* returned.
FnInit(tles) == [pc |-> "idle", op |-> "none", tles |-> tles, best |-> None,
                 results |-> <<>>]

\* The call refreshes the catalog before it reads.
Refreshing(db) ==
    ExecuteMany(db, DataToInsert(<<CatalogTle(1)>>, "celestrak:y",
                                 IsoFormat(now)), 1)

\* What the call does to the database: it only reads.
ReadOnly(db) == db

SelectionFrame == UNCHANGED <<now, strategies, stop_event, thread_ref,
                              last_fetch_time, threads, callers, ncalls, fu,
                              ia, probes, rc, ended, nrepo, pt, app, tg, xc>>

\* find_nearest_satellite: fetch_all_tles of line 29 (opened and ok as in
\* FetchAllTles: its connection failure propagates, its other failures
\* give the empty list), then the scan; sgp4 is what the propagator makes
\* of the rows at the time of the call.
FindNearestSatellite(opened, ok, sgp4) ==
    /\ fn.pc = "idle"
    /\ IF ~opened
       THEN fn' = [fn EXCEPT !.pc = "raised", !.op = "find_nearest_satellite"]
       ELSE LET rows == IF ok THEN Snapshot(1) ELSE <<>>
                tles == Catalog(rows, sgp4)
            IN fn' = [fn EXCEPT !.pc = "returned",
                                !.op = "find_nearest_satellite",
                                !.tles = tles,
                                !.best = NearestFrom(tles, 1, None)]
    /\ repo' = ReadOnly(repo)
    /\ SelectionFrame

\* get_all_satellite_states: fetch_all_tles of line 63, then one entry for
\* each record.
GetAllSatelliteStates(opened, ok, sgp4) ==
    /\ fn.pc = "idle"
    /\ IF ~opened
       THEN fn' = [fn EXCEPT !.pc = "raised",
                             !.op = "get_all_satellite_states"]
       ELSE LET rows == IF ok THEN Snapshot(1) ELSE <<>>
                tles == Catalog(rows, sgp4)
            IN fn' = [fn EXCEPT !.pc = "returned",
                                !.op = "get_all_satellite_states",
                                !.tles = tles,
                                !.results = StatesFrom(tles, 1, <<>>)]
    /\ repo' = ReadOnly(repo)
    /\ SelectionFrame

\* ------------------------------------------------------------- app.App
\* Angles are whole degrees and times whole milliseconds.  The target
\* sat_ecef_m is held as the azimuth and elevation lines 71-76 compute from
\* it for the device position, which is constant (DEFAULT_LAT, DEFAULT_LON,
\* device_alt_m = 0).

ANGLE_TOL_DEG == 12
HOLD_MS == 2000
SEND_DELAY_MS == 3000
DECLINATION_DEG == 0

\* The time between two frames of the main loop, and the time simulated.
FrameMs == 1000
MaxMs == 9000

\* The length of the list self.yes_questions
YesQuestions == 3

\* sat_ecef_m = (0.0, 0.0, 0.0), the value of __init__: the centre of the
\* Earth, straight below the device.
DefaultTarget == [az |-> 0, el |-> -90]

\* The positions find_nearest_satellite reports, and the compass headings.
Targets == {[az |-> 0, el |-> 45], [az |-> 90, el |-> 45]}
Headings == {0, 10, 90}

Abs(x) == IF x < 0 THEN -x ELSE x

ang_wrap_deg(a) == ((a % 360) + 360) % 360

ang_diff_deg(a, b) == ((a - b + 180) % 360) - 180

\* degrees(atan2(alpha sin d, (1 - alpha) + alpha cos d)) for alpha =
\* SMOOTH_ALPHA = 0.25 and d = 0..180 degrees, rounded to the degree: how far
\* circular_ema turns from prev_deg towards a new_deg that is d degrees away.
EmaTurn ==
    <<0, 0, 0, 1, 1, 1, 1, 2, 2, 2, 2, 3, 3, 3, 3, 4, 4, 4, 4, 5,
      5, 5, 5, 6, 6, 6, 6, 7, 7, 7, 7, 8, 8, 8, 8, 9, 9, 9, 9, 9,
      10, 10, 10, 10, 11, 11, 11, 11, 11, 12, 12, 12, 12, 13, 13, 13, 13, 13,
      14, 14, 14, 14, 14, 14, 15, 15, 15, 15, 15, 16, 16, 16, 16, 16, 16,
      17, 17, 17, 17, 17, 17, 17, 18, 18, 18, 18, 18, 18, 18, 18, 18,
      19, 19, 19, 19, 19, 19, 19, 19, 19, 19, 19, 19, 19, 19, 19, 19, 19, 19,
      19, 19, 19, 19, 19, 19, 19, 19, 19, 19, 19, 19, 19, 19, 19, 19, 19, 19,
      18, 18, 18, 18, 18, 18, 18, 17, 17, 17, 17, 17, 16, 16, 16, 16,
      15, 15, 15, 14, 14, 14, 14, 13, 13, 13, 12, 12, 11, 11, 11, 10, 10,
      9, 9, 9, 8, 8, 7, 7, 6, 6, 5, 5, 4, 4, 3, 3, 2, 2, 1, 1, 0, 0>>

\* circular_ema(prev_deg, new_deg, SMOOTH_ALPHA)
circular_ema(prev_deg, new_deg) ==
    LET d == ang_diff_deg(new_deg, prev_deg)
    IN ang_wrap_deg(prev_deg + (IF d >= 0 THEN EmaTurn[d + 1]
                                ELSE -EmaTurn[1 - d]))

\* bearing_to_satellite_deg: the angle on screen and the elevation
bearing_to_satellite_deg(sat, heading_mag_deg) ==
    [angle |-> (sat.az - (heading_mag_deg + DECLINATION_DEG)) % 360,
     el |-> sat.el]

\* draw, lines 410-413
Smooth(a, angle_deg) ==
    IF IsNone(a.align_ok_since_ms) /\ a.arrow_angle_smooth_deg = 0
    THEN angle_deg
    ELSE circular_ema(a.arrow_angle_smooth_deg, angle_deg)

\* draw, line 421
Inside(smooth_deg, el_deg) ==
    Abs(ang_diff_deg(smooth_deg, 0)) <= ANGLE_TOL_DEG /\ el_deg > 0

\* A tick outside tolerance leaves the dwell timer running.
DwellKept(inside, since, now_ms) ==
    IF inside /\ IsNone(since) THEN Some(now_ms) ELSE since

\* draw, lines 423-427: the dwell timer after the tolerance test
Dwell(inside, since, now_ms) ==
    IF inside
    THEN IF IsNone(since) THEN Some(now_ms) ELSE since
    ELSE None

\* The hold must be exceeded, not reached.
HoldExceeded(since, now_ms) ==
    ~IsNone(since) /\ now_ms - Val(since) > HOLD_MS

\* draw, line 429
HoldElapsed(since, now_ms) ==
    ~IsNone(since) /\ now_ms - Val(since) >= HOLD_MS

\* The App object after __init__ (lines 169-225).  now_ms is
\* pygame.time.get_ticks() at the last frame.  The last four fields record
\* the pointing session for the properties: whether a tick was drawn since
\* goto_point, the time of the first tick, whether every tick had its raw
\* bearing and elevation inside tolerance, the time of the last tick outside
\* tolerance, and the number of lock events.
AppInit ==
    [running |-> TRUE, state |-> "begin", yes_index |-> 0,
     sending_started_at |-> None, heading_mag_deg |-> 0,
     sat_ecef_m |-> DefaultTarget, arrow_angle_smooth_deg |-> 0,
     align_ok_since_ms |-> None, now_ms |-> 0,
     first_tick_ms |-> None, all_in |-> TRUE, last_out_ms |-> None,
     locks |-> 0]

AppFrame == UNCHANGED <<now, strategies, repo, stop_event, thread_ref,
                        last_fetch_time, threads, callers, ncalls, fu,
                        ia, probes, rc, ended, nrepo, pt, fn, tg, xc>>

\* _poll_nearest_satellite, lines 283-290: sat is what
\* find_nearest_satellite returned; with None, or when the call raised, the
\* exception is swallowed and the target stays.
poll_nearest_satellite(a, sat) ==
    IF IsNone(sat) THEN a ELSE [a EXCEPT !.sat_ecef_m = Val(sat)]

\* goto_point, lines 301-306
goto_point(a, sat) ==
    [poll_nearest_satellite(a, sat) EXCEPT
        !.align_ok_since_ms = None, !.arrow_angle_smooth_deg = 0,
        !.state = "point",
        !.first_tick_ms = None, !.all_in = TRUE, !.last_out_ms = None,
        !.locks = 0]

\* goto_sending, lines 320-325
goto_sending(a) ==
    [a EXCEPT !.state = "sending", !.sending_started_at = Some(a.now_ms)]

\* update, lines 469-472, at time now_ms (reset_to_begin, lines 293-299)
update(a, now_ms) ==
    IF /\ a.state = "sending"
       /\ ~IsNone(a.sending_started_at)
       /\ now_ms - Val(a.sending_started_at) >= SEND_DELAY_MS
    THEN [a EXCEPT !.yes_index = 0, !.state = "begin"]
    ELSE a

\* draw, lines 397-431, at time now_ms: the tick of the alignment gate
draw(a, now_ms) ==
    IF a.state # "point" THEN a
    ELSE
      LET b == bearing_to_satellite_deg(a.sat_ecef_m, a.heading_mag_deg)
          smooth == Smooth(a, b.angle)
          inside == Inside(smooth, b.el)
          since == Dwell(inside, a.align_ok_since_ms, now_ms)
          lock == HoldElapsed(since, now_ms)
      IN [a EXCEPT
            !.arrow_angle_smooth_deg = smooth,
            !.align_ok_since_ms = IF lock THEN None ELSE since,
            !.state = IF lock THEN "danger_q" ELSE "point",
            !.first_tick_ms = IF IsNone(a.first_tick_ms) THEN Some(now_ms)
                              ELSE a.first_tick_ms,
            !.all_in = a.all_in /\ Inside(b.angle, b.el),
            !.last_out_ms = IF inside THEN a.last_out_ms ELSE Some(now_ms),
            !.locks = IF lock THEN a.locks + 1 ELSE a.locks]

\* run, lines 476-483: one pass of the main loop after its events; d
\* milliseconds have passed since the frame before.
Frame(d) ==
    /\ app.running
    /\ app.now_ms + d <= MaxMs
    /\ app' = [draw(update(app, app.now_ms + d), app.now_ms + d)
                  EXCEPT !.now_ms = app.now_ms + d]
    /\ AppFrame

\* handle_event: the click on Start (lines 331, 379-381)
ClickStart(sat) ==
    /\ app.running /\ app.state = "begin"
    /\ app' = goto_point(app, sat)
    /\ AppFrame

\* handle_event: the click on yes or no of the danger question
\* (lines 339-346)
ClickDanger(choice) ==
    /\ app.running /\ app.state = "danger_q"
    /\ app' = IF choice = "yes"
              THEN [app EXCEPT !.yes_index = 0, !.state = "yes_flow"]
              ELSE [app EXCEPT !.state = "no_flow"]
    /\ AppFrame

\* handle_event: the click on yes or no of a question of the yes flow
\* (lines 352-358)
ClickYesNo ==
    /\ app.running /\ app.state = "yes_flow"
    /\ app' = IF app.yes_index + 1 >= YesQuestions
              THEN goto_sending([app EXCEPT !.yes_index = app.yes_index + 1])
              ELSE [app EXCEPT !.yes_index = app.yes_index + 1]
    /\ AppFrame

\* handle_event: the click on a status of the no flow (lines 363-365)
ClickStatus ==
    /\ app.running /\ app.state = "no_flow"
    /\ app' = goto_sending(app)
    /\ AppFrame

\* handle_event, EVENT_COMPASS: _poll_compass (lines 276-281); h is None
\* when get_heading raised
EventCompass(h) ==
    /\ app.running
    /\ app' = IF IsNone(h) THEN app
              ELSE [app EXCEPT !.heading_mag_deg = ang_wrap_deg(Val(h))]
    /\ app' # app
    /\ AppFrame

\* handle_event, EVENT_SAT: _poll_nearest_satellite
EventSat(sat) ==
    /\ app.running
    /\ app' = poll_nearest_satellite(app, sat)
    /\ app' # app
    /\ AppFrame

\* handle_event, QUIT or the escape key: the main loop ends
Quit ==
    /\ app.running
    /\ app' = [app EXCEPT !.running = FALSE]
    /\ AppFrame

\* ---------------------------------------------- SatelliteTargetingService
\* Ranges are whole kilometres and angles whole degrees.  A satellite is
\* held as the azimuth, elevation and slant range lines 128-147 compute from
\* satellite_ecef for the ground station.

\* The defaults of the parameters of __init__ (line 75) and can_connect
\* (lines 91-94).
DefaultMaxRangeKm == 2000
AzimuthToleranceDeg == 10
ElevationToleranceDeg == 5
RangeToleranceKm == 100

\* The values of max_range_km given to the constructor or to can_connect.
LimitsKm == {1000, 2000, 3000}

\* The satellites, and the antenna's current azimuth, elevation and range.
Satellites == [azimuth_deg : {0, 350}, elevation_deg : {40, 50},
               range_km : {500, 1500, 2500}]
CurrentAzimuths == {5, 20}
CurrentElevations == {45, 60}
CurrentRanges == {500, 1450, 2500}

\* __init__, lines 75-81: self.max_range_km = max_range_km
TgInit(max_range_km) ==
    [pc |-> "idle", max_range_km |-> max_range_km, given |-> None,
     info |-> <<>>, result |-> FALSE]

\* get_targeting_info, lines 149-169, with the three current values given.
get_targeting_info(sat, current_azimuth_deg, current_elevation_deg, current_range_km) ==
    LET azimuth_diff == Abs(sat.azimuth_deg - current_azimuth_deg)
    IN [azimuth_deg |-> sat.azimuth_deg,
        elevation_deg |-> sat.elevation_deg,
        range_km |-> sat.range_km,
        azimuth_diff_deg |-> IF azimuth_diff > 180 THEN 360 - azimuth_diff
                                                   ELSE azimuth_diff,
        elevation_diff_deg |-> sat.elevation_deg - current_elevation_deg,
        range_diff_km |-> sat.range_km - current_range_km]

\* The value of can_connect's parameter max_range_km: the argument given, or
\* the default of line 91.  self.max_range_km is not read.
MaxRangeKm(self, given) ==
    IF IsNone(given) THEN DefaultMaxRangeKm ELSE Val(given)

\* can_connect, lines 101-117, on the targeting info of line 96
can_connect(info, max_range_km) ==
    IF info.range_km > max_range_km THEN FALSE
    ELSE IF info.azimuth_diff_deg > AzimuthToleranceDeg THEN FALSE
    ELSE IF Abs(info.elevation_diff_deg) > ElevationToleranceDeg THEN FALSE
    ELSE IF Abs(info.range_diff_km) > RangeToleranceKm THEN FALSE
    ELSE TRUE

TargetFrame == UNCHANGED <<now, strategies, repo, stop_event, thread_ref,
                           last_fetch_time, threads, callers, ncalls, fu,
                           ia, probes, rc, ended, nrepo, pt, fn, app, xc>>

\* One call of can_connect, with max_range_km given or left out.
CanConnect(sat, current_azimuth_deg, current_elevation_deg, current_range_km, given) ==
    /\ tg.pc = "idle"
    /\ LET info == get_targeting_info(sat, current_azimuth_deg,
                                      current_elevation_deg, current_range_km)
       IN tg' = [tg EXCEPT !.pc = "returned", !.given = given, !.info = info,
                           !.result = can_connect(info, MaxRangeKm(tg, given))]
    /\ TargetFrame

\* ------------------------------------------------------------ environment

\* The clock advances by d seconds, up to the horizon.
Tick(d, horizon) ==
    /\ now + d <= horizon
    /\ now' = now + d
    /\ UNCHANGED <<strategies, repo, stop_event, thread_ref,
                   last_fetch_time, threads, callers, ncalls, fu, ia, probes,
                   rc, ended, nrepo, pt, fn, app, tg, xc>>

\* -------------------------------------------------------- specification


Init ==
    /\ now = 0
    /\ strategies = [i \in 1..DefaultStrategies |-> WifiStrategyInit]
    /\ repo = DbInit
    /\ stop_event = FALSE
    /\ thread_ref = None
    /\ last_fetch_time = None
    /\ threads = [t \in ThreadIds |-> ThreadInit]
    /\ callers = [c \in CallerIds |-> CallerInit]
    /\ ncalls = 0
    /\ fu = FuInit
    /\ ia = [c \in CallerIds |-> IaInit]
    /\ probes = <<>>
    /\ rc = [c \in CallerIds |-> RcInit]
    /\ ended = EndedInit
    /\ nrepo = 0
    /\ pt = PtInit(<<>>)
    /\ fn = FnInit(<<>>)
    /\ app = AppInit
    /\ tg = TgInit(DefaultMaxRangeKm)
    /\ xc = XcInit(FALSE)

Next ==
    \/ \E c \in CallerIds, b \in BOOLEAN : StartCheck(c, b)
    \/ \E c \in CallerIds : DoInitialFetch(c)
    \/ \E c \in CallerIds : StartClear(c)
    \/ \E c \in CallerIds : StartCreate(c)
    \/ \E c \in CallerIds : StartThread(c)
    \/ \E c \in CallerIds : StopSet(c)
    \/ \E c \in CallerIds : StopCheck(c)
    \/ \E c \in CallerIds : StopJoin(c)
    \/ \E c \in CallerIds : StopReturn(c)
    \/ \E t \in ThreadIds : LoopCheck(t)
    \/ \E t \in ThreadIds, up \in [1..DefaultStrategies -> BOOLEAN] :
          LoopCycle(t, up)
    \/ Tick(SleepSeconds, MaxTime)

Spec == Init /\ [][Next]_vars

\* No start() or stop() call is under way.
Quiet == \A c \in CallerIds : callers[c].pc = "idle"

\* The scheduler used by callers that take turns: a call of start() or
\* stop() begins when none is under way, while the loop threads run on.
NextSeq ==
    \/ /\ Quiet
       /\ \E c \in CallerIds, b \in BOOLEAN : StartCheck(c, b)
    \/ \E c \in CallerIds : DoInitialFetch(c)
    \/ \E c \in CallerIds : StartClear(c)
    \/ \E c \in CallerIds : StartCreate(c)
    \/ \E c \in CallerIds : StartThread(c)
    \/ /\ Quiet
       /\ \E c \in CallerIds : StopSet(c)
    \/ \E c \in CallerIds : StopCheck(c)
    \/ \E c \in CallerIds : StopJoin(c)
    \/ \E c \in CallerIds : StopReturn(c)
    \/ \E t \in ThreadIds : LoopCheck(t)
    \/ \E t \in ThreadIds, up \in [1..DefaultStrategies -> BOOLEAN] :
          LoopCycle(t, up)
    \/ Tick(SleepSeconds, MaxTime)

SpecSeq == Init /\ [][NextSeq]_vars

\* The callers of fetch_url, with a manager of NumStrategies strategies.
InitFetch ==
    /\ now = 0
    /\ strategies = [i \in 1..NumStrategies |-> WifiStrategyInit]
    /\ repo = DbInit
    /\ stop_event = FALSE
    /\ thread_ref = None
    /\ last_fetch_time = None
    /\ threads = [t \in ThreadIds |-> ThreadInit]
    /\ callers = [c \in CallerIds |-> CallerInit]
    /\ ncalls = 0
    /\ fu = FuInit
    /\ ia = [c \in CallerIds |-> IaInit]
    /\ probes = <<>>
    /\ rc = [c \in CallerIds |-> RcInit]
    /\ ended = EndedInit
    /\ nrepo = 0
    /\ pt = PtInit(<<>>)
    /\ fn = FnInit(<<>>)
    /\ app = AppInit
    /\ tg = TgInit(DefaultMaxRangeKm)
    /\ xc = XcInit(FALSE)

NextFetch ==
    \/ FuCall
    \/ \E up \in BOOLEAN : FuProbe(up)
    \/ \E up \in BOOLEAN, got \in {None} \cup {Some(b) : b \in Bodies} :
          FuFetch(up, got)
    \/ Tick(CheckInterval, FetchMaxTime)

SpecFetch == InitFetch /\ [][NextFetch]_vars

\* The contexts that call is_available on one WifiStrategy.
NextWifi ==
    \/ \E c \in CallerIds : IaCheck(c)
    \/ \E c \in CallerIds, up \in BOOLEAN : IaProbe(c, up)
    \/ Tick(1, WifiMaxTime)

SpecWifi == Init /\ [][NextWifi]_vars

\* The contexts that call the repository, on a database that starts empty.
NextRepo ==
    \/ \E c \in CallerIds, tles \in Batches, source \in Sources,
          opened \in BOOLEAN, ok \in BOOLEAN :
          UpsertTles(c, tles, source, opened, ok)
    \/ \E c \in CallerIds, ok \in BOOLEAN : ExecuteRow(c, ok)
    \/ \E c \in CallerIds, ok \in BOOLEAN : Commit(c, ok)
    \/ \E c \in CallerIds, opened \in BOOLEAN, ok \in BOOLEAN :
          FetchAllTles(c, opened, ok)
    \/ \E c \in CallerIds, satellite_id \in 1..MaxBatch,
          opened \in BOOLEAN, ok \in BOOLEAN :
          FetchSatelliteById(c, satellite_id, opened, ok)

SpecRepo == Init /\ [][NextRepo]_vars

\* The callers of parse_tles, with every text of up to MaxLines lines.
InitParse ==
    /\ now = 0
    /\ strategies = [i \in 1..DefaultStrategies |-> WifiStrategyInit]
    /\ repo = DbInit
    /\ stop_event = FALSE
    /\ thread_ref = None
    /\ last_fetch_time = None
    /\ threads = [t \in ThreadIds |-> ThreadInit]
    /\ callers = [c \in CallerIds |-> CallerInit]
    /\ ncalls = 0
    /\ fu = FuInit
    /\ ia = [c \in CallerIds |-> IaInit]
    /\ probes = <<>>
    /\ rc = [c \in CallerIds |-> RcInit]
    /\ ended = EndedInit
    /\ nrepo = 0
    /\ pt \in {PtInit(text) : text \in Texts}
    /\ fn = FnInit(<<>>)
    /\ app = AppInit
    /\ tg = TgInit(DefaultMaxRangeKm)
    /\ xc = XcInit(FALSE)

NextParse == ParseTlesCall

SpecParse == InitParse /\ [][NextParse]_vars

\* The callers of parse_tles whose call is followed iteration by iteration,
\* with every text of up to MaxLoopLines lines; a call that has begun goes on.
InitParseLoop ==
    /\ now = 0
    /\ strategies = [i \in 1..DefaultStrategies |-> WifiStrategyInit]
    /\ repo = DbInit
    /\ stop_event = FALSE
    /\ thread_ref = None
    /\ last_fetch_time = None
    /\ threads = [t \in ThreadIds |-> ThreadInit]
    /\ callers = [c \in CallerIds |-> CallerInit]
    /\ ncalls = 0
    /\ fu = FuInit
    /\ ia = [c \in CallerIds |-> IaInit]
    /\ probes = <<>>
    /\ rc = [c \in CallerIds |-> RcInit]
    /\ ended = EndedInit
    /\ nrepo = 0
    /\ pt \in {PtInit(text) : text \in LoopTexts}
    /\ fn = FnInit(<<>>)
    /\ app = AppInit
    /\ tg = TgInit(DefaultMaxRangeKm)
    /\ xc = XcInit(FALSE)

NextParseLoop ==
    \/ ParseBegin
    \/ ParseWhile

SpecParseLoop == InitParseLoop /\ [][NextParseLoop]_vars /\ WF_vars(NextParseLoop)

\* The callers of find_nearest_satellite, with every catalog of up to
\* MaxCatalog records.
InitNearest ==
    /\ now = 0
    /\ strategies = [i \in 1..DefaultStrategies |-> WifiStrategyInit]
    /\ repo \in {Stored(n) : n \in 0..MaxCatalog}
    /\ stop_event = FALSE
    /\ thread_ref = None
    /\ last_fetch_time = None
    /\ threads = [t \in ThreadIds |-> ThreadInit]
    /\ callers = [c \in CallerIds |-> CallerInit]
    /\ ncalls = 0
    /\ fu = FuInit
    /\ ia = [c \in CallerIds |-> IaInit]
    /\ probes = <<>>
    /\ rc = [c \in CallerIds |-> RcInit]
    /\ ended = EndedInit
    /\ nrepo = 0
    /\ pt = PtInit(<<>>)
    /\ fn = FnInit(<<>>)
    /\ app = AppInit
    /\ tg = TgInit(DefaultMaxRangeKm)
    /\ xc = XcInit(FALSE)

NextNearest ==
    \/ /\ fn.pc = "idle"
       /\ \E opened, ok \in BOOLEAN, sgp4 \in Catalogs(Len(repo.tles)) :
             FindNearestSatellite(opened, ok, sgp4)
    \/ /\ fn.pc = "idle"
       /\ \E opened, ok \in BOOLEAN, sgp4 \in Catalogs(Len(repo.tles)) :
             GetAllSatelliteStates(opened, ok, sgp4)

SpecNearest == InitNearest /\ [][NextNearest]_vars

\* The main loop of the App: its events and its frames.
NextApp ==
    \/ \E d \in {FrameMs, 2 * FrameMs} : Frame(d)
    \/ \E sat \in {None} \cup {Some(t) : t \in Targets} : ClickStart(sat)
    \/ \E choice \in {"yes", "no"} : ClickDanger(choice)
    \/ ClickYesNo
    \/ ClickStatus
    \/ \E h \in {None} \cup {Some(x) : x \in Headings} : EventCompass(h)
    \/ \E sat \in {None} \cup {Some(t) : t \in Targets} : EventSat(sat)
    \/ Quit

SpecApp == Init /\ [][NextApp]_vars


\* The services constructed with each limit, and their can_connect calls.
InitTarget ==
    /\ now = 0
    /\ strategies = [i \in 1..DefaultStrategies |-> WifiStrategyInit]
    /\ repo = DbInit
    /\ stop_event = FALSE
    /\ thread_ref = None
    /\ last_fetch_time = None
    /\ threads = [t \in ThreadIds |-> ThreadInit]
    /\ callers = [c \in CallerIds |-> CallerInit]
    /\ ncalls = 0
    /\ fu = FuInit
    /\ ia = [c \in CallerIds |-> IaInit]
    /\ probes = <<>>
    /\ rc = [c \in CallerIds |-> RcInit]
    /\ ended = EndedInit
    /\ nrepo = 0
    /\ pt = PtInit(<<>>)
    /\ fn = FnInit(<<>>)
    /\ app = AppInit
    /\ tg \in {TgInit(max_range_km) : max_range_km \in LimitsKm}
    /\ xc = XcInit(FALSE)

NextTarget ==
    /\ tg.pc = "idle"
    /\ \E sat \in Satellites, current_azimuth_deg \in CurrentAzimuths,
          current_elevation_deg \in CurrentElevations,
          current_range_km \in CurrentRanges,
          given \in {None} \cup {Some(l) : l \in LimitsKm} :
          CanConnect(sat, current_azimuth_deg, current_elevation_deg,
                     current_range_km, given)

SpecTarget == InitTarget /\ [][NextTarget]_vars

\* A repository with a connection per call, and one with an external
\* connection, each used by one context.
InitConn ==
    /\ now = 0
    /\ strategies = [i \in 1..DefaultStrategies |-> WifiStrategyInit]
    /\ repo = DbInit
    /\ stop_event = FALSE
    /\ thread_ref = None
    /\ last_fetch_time = None
    /\ threads = [t \in ThreadIds |-> ThreadInit]
    /\ callers = [c \in CallerIds |-> CallerInit]
    /\ ncalls = 0
    /\ fu = FuInit
    /\ ia = [c \in CallerIds |-> IaInit]
    /\ probes = <<>>
    /\ rc = [c \in CallerIds |-> RcInit]
    /\ ended = EndedInit
    /\ nrepo = 0
    /\ pt = PtInit(<<>>)
    /\ fn = FnInit(<<>>)
    /\ app = AppInit
    /\ tg = TgInit(DefaultMaxRangeKm)
    /\ xc \in {XcInit(external) : external \in BOOLEAN}

NextConn ==
    \/ \E tles \in Batches, source \in Sources, k \in 0..MaxBatch,
          ok \in BOOLEAN : UpsertTlesOn(tles, source, k, ok)
    \/ \E ok \in BOOLEAN : FetchAllTlesOn(ok)

SpecConn == InitConn /\ [][NextConn]_vars

\* ------------------------------------------------------------------ claims

\* The loop threads that have been started and have not finished.
LiveThreads == {t \in ThreadIds : threads[t].pc \in {"top", "cycle"}}

\* The scheduler is not running: it was never started or has been stopped.
\* No loop thread is running or about to be started, and no start() is under way.
NotRunning ==
    /\ \A t \in ThreadIds : threads[t].pc \in {"new", "done"}
    /\ \A d \in CallerIds : callers[d].pc \notin
           {"start_62", "start_64", "start_65", "start_66"}

\* C1: start() called while the loop thread is running is a no-op: the call
\* returns from its if with no initial fetch, and creates no thread and leaves
\* the stop flag, the thread reference, lastFetchTime and the table as they were.
C1_StartWhileRunningIsNoOp ==
    [][\A c \in CallerIds :
          ( /\ callers[c].pc = "idle"
            /\ callers'[c] # callers[c]
            /\ callers'[c].pc # "stop_71"
            /\ ~IsNone(thread_ref)
            /\ Val(thread_ref) \in LiveThreads )
          => /\ callers'[c].pc = "idle"
             /\ callers'[c].ret = "line_59"
             /\ UNCHANGED <<stop_event, thread_ref, last_fetch_time, threads, repo>>
      ]_vars

\* C1 witness: a start(initial_fetch=True) has returned from its if while the
\* loop thread it found is running.
C1_Witness ==
    \E c \in CallerIds :
        /\ callers[c].pc = "idle"
        /\ callers[c].ret = "line_59"
        /\ ~IsNone(thread_ref)
        /\ Val(thread_ref) \in LiveThreads
        /\ ~IsNone(last_fetch_time)

\* Caller c takes a step of stop(): its first (line 70) or a later one.
StopStep(c) ==
    \/ callers[c].pc = "idle" /\ callers'[c].pc = "stop_71"
    \/ callers[c].pc \in {"stop_71", "stop_72", "stop_join"}
          /\ callers'[c].pc # callers[c].pc

\* C2 as stated: every step of a stop() made while the scheduler is not running
\* leaves the stop flag, the thread reference and lastFetchTime as they were.
C2_StopNotRunningChangesNothing ==
    [][\A c \in CallerIds :
          ( /\ StopStep(c)
            /\ NotRunning )
          => UNCHANGED <<stop_event, thread_ref, last_fetch_time>>
      ]_vars

\* C2 amended: a stop() made while the scheduler is not running leaves the
\* thread reference, lastFetchTime, the threads and the table as they were and
\* does not block (its join, if any, is on a finished thread and can return at
\* once), but it leaves the stop flag set, also when the flag was clear.
C2_StopNotRunningSetsOnlyFlag ==
    [][\A c \in CallerIds :
          ( /\ StopStep(c)
            /\ NotRunning )
          => /\ UNCHANGED <<thread_ref, last_fetch_time, threads, repo>>
             /\ stop_event'
             /\ callers'[c].ret \notin {"RuntimeError_66", "RuntimeError_72"}
             /\ callers'[c].pc = "stop_join"
                   => threads'[Val(callers'[c].target)].pc = "done"
      ]_vars

\* C2 witness: a stop() on a scheduler that was never started has returned, and
\* the stop flag is set.
C2_Witness ==
    \E c \in CallerIds :
        /\ callers[c].pc = "idle"
        /\ callers[c].ret = "line_71"
        /\ \A t \in ThreadIds : threads[t].pc = "new"
        /\ \A d \in CallerIds : callers[d].pc = "idle"
        /\ stop_event

\* C3 as stated: when a call of stop() returns, every loop thread has exited,
\* so that none is in a fetch cycle.
C3_StopReturnedMeansStopped ==
    [][\A c \in CallerIds :
          ( /\ callers[c].pc \in {"stop_71", "stop_join"}
            /\ callers'[c].pc = "idle"
            /\ callers'[c].ret \in {"line_71", "line_73"} )
          => /\ LiveThreads' = {}
             /\ \A t \in ThreadIds : threads'[t].pc # "cycle"
      ]_vars

\* C4: the loop enters a fetch cycle only when lastFetchTime is unset or at
\* least the refresh interval old, and calls fetch_and_store_group only when a
\* strategy reported available; a wake that is not due, and a cycle that found
\* no connection or failed, leave lastFetchTime and the table unchanged.
C4_FetchOnlyWhenDueAndAvailable ==
    [][\A t \in ThreadIds :
          /\ (threads[t].pc = "top" /\ threads'[t].pc = "cycle")
                => ( \/ IsNone(last_fetch_time)
                     \/ now - Val(last_fetch_time) >= Interval )
          /\ (threads[t].pc = "top" /\ threads'[t] # threads[t])
                => /\ UNCHANGED <<last_fetch_time, repo>>
                   /\ threads'[t].cyc.out = "none"
          /\ (threads[t].pc = "cycle" /\ threads'[t].pc # "cycle"
                 /\ threads'[t].cyc.out = "called")
                => \E i \in DOMAIN strategies :
                       strategies'[i].last_status = Some(TRUE)
          /\ (threads[t].pc = "cycle" /\ threads'[t].pc # "cycle"
                 /\ threads'[t].cyc.out # "called")
                => UNCHANGED <<last_fetch_time, repo>>
      ]_vars

\* C4 witness: a wake that was due found no connection, the thread sleeps and
\* lastFetchTime is still unset; another wake before was not needed.
C4_Witness ==
    \E t \in ThreadIds :
        /\ threads[t].pc = "top"
        /\ threads[t].cyc.out = "noconn"
        /\ IsNone(last_fetch_time)

\* C5 as stated: lastFetchTime is advanced only by a cycle in which the group
\* text was fetched and stored.
C5_AdvanceOnlyAfterFetchAndStore ==
    [][(last_fetch_time' # last_fetch_time /\ ~IsNone(last_fetch_time'))
          => \/ \E t \in ThreadIds :
                   /\ threads[t].pc = "cycle" /\ threads'[t].pc = "top"
                   /\ threads'[t].cyc.fetched /\ threads'[t].cyc.stored
             \/ \E c \in CallerIds :
                   /\ callers[c].pc = "start_62" /\ callers'[c].pc = "start_64"
                   /\ callers'[c].cyc.fetched /\ callers'[c].cyc.stored
      ]_vars

\* C6: a loop thread ends only from its while condition and only with the stop
\* flag set; a cycle that raised an exception leaves the thread in its sleep.
C6_LoopExitsOnlyOnStop ==
    [][\A t \in ThreadIds :
          /\ (threads[t].pc # "done" /\ threads'[t].pc = "done")
                => (stop_event /\ threads[t].pc = "top")
          /\ (threads[t].pc = "cycle" /\ threads'[t].pc # "cycle")
                => threads'[t].pc = "top"
      ]_vars

\* C6 witness: a cycle raised an exception, the stop flag is clear and the
\* thread sleeps until its next wake.
C6_Witness ==
    \E t \in ThreadIds :
        /\ threads[t].pc = "top"
        /\ threads[t].cyc.out = "error"
        /\ ~stop_event

\* C7 as stated: the initial fetch of start(initial_fetch=True) either fetches
\* and stores the group and records lastFetchTime, or fails, and then leaves
\* the table unchanged and lastFetchTime unset (so the first wake is due).
C7_InitialFetchFetchesOrUnsets ==
    [][\A c \in CallerIds :
          (callers[c].pc = "start_62" /\ callers'[c].pc = "start_64")
          => \/ /\ callers'[c].cyc.fetched
                /\ callers'[c].cyc.stored
                /\ last_fetch_time' = Some(now)
             \/ /\ ~callers'[c].cyc.fetched
                /\ repo' = repo
                /\ IsNone(last_fetch_time')
      ]_vars

\* The strategies that answered False to is_available in the current call.
ReportedUnavailable ==
    {i \in DOMAIN strategies :
        \E k \in 1..Len(fu.log) : fu.log[k] = <<"is_available", i, "False">>}

\* C8: fetch_url asks the strategies in registration order; it calls fetch_url
\* only on a strategy that has just answered True to is_available; it moves to
\* the next strategy only after False or a None body; and a body that is not
\* None ends the call at once and is what the call returns, so that no later
\* strategy is asked or fetched.
C8_FirstAvailableBodyInOrder ==
    /\ \A k \in 1..Len(fu.log) :
          LET e == fu.log[k]
          IN /\ k = 1 => (e[1] = "is_available" /\ e[2] = 1)
             /\ (k > 1 /\ e[1] = "fetch_url")
                   => fu.log[k - 1] = <<"is_available", e[2], "True">>
             /\ (k > 1 /\ e[1] = "is_available")
                   => /\ e[2] = fu.log[k - 1][2] + 1
                      /\ \/ fu.log[k - 1] = <<"is_available", e[2] - 1, "False">>
                         \/ fu.log[k - 1] = <<"fetch_url", e[2] - 1, "None">>
             /\ (e[1] = "fetch_url" /\ e[3] \in Bodies)
                   => /\ k = Len(fu.log)
                      /\ fu.pc = "returned"
                      /\ fu.result = Some(e[3])
    /\ fu.pc = "returned"
          => /\ Len(fu.log) > 0
             /\ fu.log[Len(fu.log)][1] = "fetch_url"
             /\ fu.log[Len(fu.log)][3] \in Bodies
             /\ fu.result = Some(fu.log[Len(fu.log)][3])

\* C8 witness: the first strategy was available and its fetch failed, and the
\* call returned the body of the second strategy.
C8_Witness ==
    /\ fu.pc = "returned"
    /\ Len(fu.log) = 4
    /\ fu.log[2] = <<"fetch_url", 1, "None">>
    /\ fu.log[4][2] = 2

\* C9 as stated: the ConnectionError of fetch_url lists one entry for each
\* registered strategy.
C9_ErrorListsEveryStrategy ==
    (fu.pc = "raised" /\ fu.exc = "ConnectionError")
        => Len(fu.errors) = Len(strategies)

\* C10: once every strategy has answered False to is_available, the call has
\* ended by raising ConnectionError and has returned nothing; and a call that
\* is about to ask a strategy can always take that step, whatever the network.
C10_AllUnavailableRaises ==
    /\ ReportedUnavailable = DOMAIN strategies
          => /\ fu.pc = "raised"
             /\ fu.exc = "ConnectionError"
             /\ IsNone(fu.result)
    /\ fu.pc = "probe" => \A up \in BOOLEAN : ENABLED FuProbe(up)

\* C10 witness: every strategy answered False and the call raised.
C10_Witness ==
    /\ fu.pc = "raised"
    /\ ReportedUnavailable = DOMAIN strategies

\* The probes that have answered.
Answered == {k \in DOMAIN probes : ~IsNone(probes[k].status)}

\* C11: for one WifiStrategy, any two probes issued by is_available() are at
\* least 5 seconds apart, and a call made less than 5 seconds after the last
\* probe returns the status that probe recorded and issues no probe.
C11_ProbesFiveSecondsApart ==
    [][\A c \in CallerIds : IaCheck(c) =>
          /\ \A i, j \in DOMAIN probes' :
                i < j => probes'[j].at - probes'[i].at >= CheckInterval
          /\ \A k \in Answered :
                (k = Len(probes) /\ now - probes[k].at < CheckInterval) =>
                   /\ probes' = probes
                   /\ ia'[c].ret = StatusRet(probes[k].status)]_vars

\* The stored rows of a triple, and the triples of a batch.
RowsOf(tbl, t) == {i \in DOMAIN tbl : Identity(tbl[i]) = t}
TriplesOf(data) == {<<data[i][1], data[i][2], data[i][3]>> : i \in DOMAIN data}

\* C12: after any sequence of upsert_tles calls no two stored records share
\* the same (name, line1, line2), and a step never changes the id, name,
\* line1 or line2 of a stored record nor removes it: re-upserting an identity
\* changes only source and fetched_at.
C12_IdentityUniqueAndKept ==
    [][/\ \A i, j \in DOMAIN repo'.tles :
             i # j => Identity(repo'.tles[i]) # Identity(repo'.tles[j])
       /\ \A i \in DOMAIN repo.tles :
             /\ i \in DOMAIN repo'.tles
             /\ repo'.tles[i].id = repo.tles[i].id
             /\ Identity(repo'.tles[i]) = Identity(repo.tles[i])]_vars

\* An upsert_tles call committed a batch on a table of two records, one of
\* them stored before with another source: its provenance columns changed.
C12_Witness ==
    \E i \in DOMAIN repo.tles :
        /\ ended.op = "upsert_tles" /\ ended.committed
        /\ Len(ended.pre.tles) = 2 /\ Len(repo.tles) = 2
        /\ Identity(repo.tles[i]) \in TriplesOf(ended.data)
        /\ ended.pre.tles[i].source # ended.data[1][4]
        /\ repo.tles[i].source = ended.data[1][4]
        /\ repo.tles[i].fetched_at # ended.pre.tles[i].fetched_at
        /\ Identity(repo.tles[i]) = Identity(ended.pre.tles[i])

\* The sources stored for a triple.
SourcesOf(tbl, t) == {tbl[i].source : i \in RowsOf(tbl, t)}

\* C13: a successful (committed) upsert leaves exactly one record for each
\* identity of its batch, with the source of that call, and the source of
\* every other record as it was; no other step changes the table.  So each
\* record's source is the source of the last successful upsert that
\* contained its identity.
C13_SourceOfLastUpsert ==
    [][IF \E c \in CallerIds : Commit(c, TRUE) /\ rc[c].k > 0
       THEN \A c \in CallerIds : (Commit(c, TRUE) /\ rc[c].k > 0) =>
               \A t \in Tles :
                   IF t \in TriplesOf(rc[c].data)
                   THEN /\ Cardinality(RowsOf(repo'.tles, t)) = 1
                        /\ SourcesOf(repo'.tles, t) = {rc[c].data[1][4]}
                   ELSE /\ Cardinality(RowsOf(repo'.tles, t)) =
                              Cardinality(RowsOf(repo.tles, t))
                        /\ SourcesOf(repo'.tles, t) = SourcesOf(repo.tles, t)
       ELSE repo' = repo]_vars

\* upsert_tles committed a triple that was stored with another source: the
\* table has the one record, with the source of the later call.
C13_Witness ==
    /\ ended.op = "upsert_tles" /\ ended.committed
    /\ Len(ended.data) = 1 /\ Len(ended.pre.tles) = 1 /\ Len(repo.tles) = 1
    /\ Identity(ended.pre.tles[1]) \in TriplesOf(ended.data)
    /\ ended.pre.tles[1].source # ended.data[1][4]
    /\ repo.tles[1].source = ended.data[1][4]

\* C14: after a successful upsert_tles call every record whose identity was
\* in the batch has fetched_at equal to the timestamp taken at that call,
\* for newly inserted records and for records that already existed.
C14_FetchedAtIsCallTime ==
    [][\A c \in CallerIds : Commit(c, TRUE) =>
          \A i \in DOMAIN repo'.tles :
              Identity(repo'.tles[i]) \in TriplesOf(rc[c].data) =>
                  repo'.tles[i].fetched_at = IsoFormat(rc[c].ts)]_vars

\* C15: no storage failure propagates out of the repository: no call of
\* fetch_all_tles, fetch_satellite_by_id or upsert_tles raises, and a failed
\* read returns the empty list or None.
C15_NoFailurePropagates ==
    /\ ended.outcome # "raised"
    /\ ended.op = "fetch_satellite_by_id" => Len(ended.result) <= 1

\* C16: a fetch_all_tles call that succeeds while another context's
\* upsert_tles transaction is open returns the catalog as it was before the
\* batch or the catalog with the whole batch applied, never part of it.
C16_ReadsSeeWholeBatches ==
    [][\A r \in CallerIds : FetchAllTles(r, TRUE, TRUE) =>
          \A w \in InTransaction :
              ended'.result \in
                  {rc[w].pre.tles,
                   ExecuteMany(rc[w].pre, rc[w].data, 1).tles}]_vars

\* A read returned while a two-row batch had run one of its rows, the
\* transaction's rows differing from both the old and the new catalog.
C16_Witness ==
    \E w \in CallerIds :
        /\ ended.op = "fetch_all_tles" /\ ended.outcome = "returned"
        /\ ended.mid
        /\ rc[w].pc = "execute" /\ rc[w].k = 1 /\ Len(rc[w].data) = 2
        /\ rc[w].pending # rc[w].pre
        /\ rc[w].pending # ExecuteMany(rc[w].pre, rc[w].data, 1)
        /\ ended.result = rc[w].pre.tles

\* A name line: not blank and not an element line.
IsName(l) == ~Blank(l) /\ ~StartsWith(l, "1") /\ ~StartsWith(l, "2")

\* Block b (from 0) of a text made of 3-line blocks.
Block(text, b) == <<text[3 * b + 1], text[3 * b + 2], text[3 * b + 3]>>

\* The text is made of k >= 1 well-formed 3-line blocks.
WellFormed(text) ==
    /\ Len(text) >= 3
    /\ Len(text) % 3 = 0
    /\ \A b \in 0..(Len(text) \div 3 - 1) :
          /\ IsName(Block(text, b)[1])
          /\ StartsWith(Block(text, b)[2], "1")
          /\ StartsWith(Block(text, b)[3], "2")

\* C17: for text made of k >= 1 well-formed 3-line blocks (a name line, a
\* line starting with "1 ", a line starting with "2 "), parse_tles returns
\* exactly k triples in input order, the i-th being the i-th block's lines.
C17_BlocksParseInOrder ==
    (pt.pc = "returned" /\ WellFormed(pt.text)) =>
        /\ Len(pt.tles) = Len(pt.text) \div 3
        /\ \A b \in 0..(Len(pt.text) \div 3 - 1) :
              pt.tles[b + 1] = Block(pt.text, b)

\* Two different well-formed blocks were parsed into two triples.
C17_Witness ==
    /\ pt.pc = "returned"
    /\ WellFormed(pt.text)
    /\ Len(pt.text) = 6
    /\ Len(pt.tles) = 2
    /\ pt.tles[1] # pt.tles[2]
    /\ pt.tles[2] = Block(pt.text, 1)

\* C18: parse_tles discards malformed fragments: every returned triple has
\* line1 starting with "1 " and line2 starting with "2 ".
C18_TriplesAreElementPairs ==
    pt.pc = "returned" =>
        \A k \in DOMAIN pt.tles :
            StartsWith(pt.tles[k][2], "1") /\ StartsWith(pt.tles[k][3], "2")

\* C19: every pair of a line starting with "1 " followed by a line starting
\* with "2 " yields a triple carrying the pair's two lines, with the line
\* before the pair, if there is one, as the name.
C19_EveryPairYieldsTriple ==
    pt.pc = "returned" =>
        \A j \in 1..(Len(Lines(pt.text)) - 1) :
            (StartsWith(Lines(pt.text)[j], "1")
                 /\ StartsWith(Lines(pt.text)[j + 1], "2")) =>
                \E k \in DOMAIN pt.tles :
                    /\ pt.tles[k][2] = Lines(pt.text)[j]
                    /\ pt.tles[k][3] = Lines(pt.text)[j + 1]
                    /\ j > 1 => pt.tles[k][1] = Lines(pt.text)[j - 1]

\* C20: find_nearest_satellite returns None when the catalog is empty and
\* when every record fails propagation (no satrec, or a nonzero error
\* code), and returns a match when a record propagates successfully.
C20_NoneIffNothingPropagates ==
    (fn.pc = "returned" /\ fn.op = "find_nearest_satellite") =>
        (IsNone(fn.best) <=>
            \A k \in DOMAIN fn.tles :
                ~fn.tles[k].satrec \/ fn.tles[k].error # 0)

\* A catalog with a record without satrec, a record with a nonzero error
\* code and a record that propagates: the match is the last one.
C20_Witness ==
    /\ fn.pc = "returned" /\ fn.op = "find_nearest_satellite"
    /\ \E k \in DOMAIN fn.tles : ~fn.tles[k].satrec
    /\ \E k \in DOMAIN fn.tles : fn.tles[k].satrec /\ fn.tles[k].error # 0
    /\ ~IsNone(fn.best)
    /\ fn.tles[Val(fn.best).id].satrec /\ fn.tles[Val(fn.best).id].error = 0

\* The record built a satrec and propagated with error code 0.
Succeeds(tle) == tle.satrec /\ tle.error = 0

\* The positions of the catalog whose record succeeds.
Succeeding(tles) == {k \in DOMAIN tles : Succeeds(tles[k])}

\* C21: find_nearest_satellite returns the record at minimal distance among
\* the records that propagate successfully, the first of them in catalog
\* order on a tie; failing records are skipped and never returned, and the
\* result is the result over the catalog without the failing records.
C21_NearestAmongPropagated ==
    (fn.pc = "returned" /\ fn.op = "find_nearest_satellite") =>
        /\ Succeeding(fn.tles) # {} =>
              \E m \in Succeeding(fn.tles) :
                  /\ \A j \in Succeeding(fn.tles) :
                        \/ fn.tles[m].dist < fn.tles[j].dist
                        \/ fn.tles[m].dist = fn.tles[j].dist /\ m <= j
                  /\ fn.best = Some([id |-> fn.tles[m].id,
                                     distance_km |-> fn.tles[m].dist])
        /\ fn.best = NearestFrom(SelectSeq(fn.tles, Succeeds), 1, None)

\* A failing record at a smaller distance comes first, then two records
\* that propagate at the same distance: the first of the two is returned.
C21_Witness ==
    /\ fn.pc = "returned" /\ fn.op = "find_nearest_satellite"
    /\ Len(fn.tles) = 3
    /\ ~Succeeds(fn.tles[1]) /\ fn.tles[1].dist < fn.tles[2].dist
    /\ Succeeds(fn.tles[2]) /\ Succeeds(fn.tles[3])
    /\ fn.tles[2].dist = fn.tles[3].dist
    /\ fn.best = Some([id |-> fn.tles[2].id, distance_km |-> fn.tles[2].dist])

\* C22: get_all_satellite_states returns exactly one entry for each catalog
\* record, in catalog order: a record whose element lines cannot be
\* constructed has the error tag "invalid_tle", a record that propagates
\* has its error code in sgp4_error (a nonzero code included).
C22_OneStatePerRecord ==
    (fn.pc = "returned" /\ fn.op = "get_all_satellite_states") =>
        /\ Len(fn.results) = Len(fn.tles)
        /\ \A k \in DOMAIN fn.tles :
              /\ fn.results[k].id = fn.tles[k].id
              /\ fn.results[k].name = fn.tles[k].name
              /\ IF fn.tles[k].satrec
                 THEN /\ DOMAIN fn.results[k] = {"id", "name", "sgp4_error"}
                      /\ fn.results[k].sgp4_error = fn.tles[k].error
                 ELSE /\ DOMAIN fn.results[k] = {"id", "name", "error"}
                      /\ fn.results[k].error = "invalid_tle"

\* A catalog of a record that cannot be constructed, a record with a
\* nonzero error code and a record that propagates: three entries.
C22_Witness ==
    /\ fn.pc = "returned" /\ fn.op = "get_all_satellite_states"
    /\ Len(fn.tles) = 3 /\ Len(fn.results) = 3
    /\ ~fn.tles[1].satrec
    /\ fn.tles[2].satrec /\ fn.tles[2].error # 0
    /\ fn.tles[3].satrec /\ fn.tles[3].error = 0
    /\ fn.results[1].error = "invalid_tle"
    /\ fn.results[2].sgp4_error = fn.tles[2].error

IsTick == app.state = "point" /\ app'.now_ms # app.now_ms

\* The elevation and the raw bearing the tick computes.
TickEl == bearing_to_satellite_deg(app.sat_ecef_m, app.heading_mag_deg).el
TickRaw == bearing_to_satellite_deg(app.sat_ecef_m, app.heading_mag_deg).angle

\* The tick declares lock.
IsLock == IsTick /\ app'.state = "danger_q"

\* C23: the gate declares lock at a tick only if that tick is inside
\* tolerance, the dwell timer started at least HOLD_MS before, and no tick
\* since it started was outside tolerance; a tick outside tolerance clears
\* the timer, so lock is never less than HOLD_MS after such a tick.
C23_LockOnlyAfterHold ==
    [][/\ IsLock =>
            /\ Inside(app'.arrow_angle_smooth_deg, TickEl)
            /\ ~IsNone(app.align_ok_since_ms)
            /\ app'.now_ms - Val(app.align_ok_since_ms) >= HOLD_MS
            /\ \/ IsNone(app'.last_out_ms)
               \/ /\ Val(app'.last_out_ms) < Val(app.align_ok_since_ms)
                  /\ app'.now_ms - Val(app'.last_out_ms) >= HOLD_MS
       /\ (IsTick /\ ~Inside(app'.arrow_angle_smooth_deg, TickEl)) =>
            /\ IsNone(app'.align_ok_since_ms)
            /\ app'.last_out_ms = Some(app'.now_ms)
            /\ app'.state = "point"
       /\ ~IsNone(app'.align_ok_since_ms) =>
            \/ IsNone(app'.last_out_ms)
            \/ Val(app'.last_out_ms) < Val(app'.align_ok_since_ms)]_vars

\* Lock was declared in a session that had a tick outside tolerance after
\* its first tick: the dwell began again after it.
C23_Witness ==
    /\ app.state = "danger_q" /\ app.locks = 1
    /\ ~IsNone(app.last_out_ms)
    /\ Val(app.first_tick_ms) < Val(app.last_out_ms)
    /\ app.now_ms - Val(app.last_out_ms) >= HOLD_MS

\* C24: in a session whose ticks all have their bearing within tolerance,
\* the lock event fires at the first tick at which HOLD_MS have passed since
\* the first tick, and not before; a session has at most one lock event,
\* and none fires outside a pointing session.
C24_LocksExactlyOnce ==
    [][/\ (IsTick /\ app'.all_in) =>
            (IsLock <=> app'.now_ms - Val(app'.first_tick_ms) >= HOLD_MS)
       /\ app'.locks # app.locks =>
            \/ IsLock /\ app.locks = 0 /\ app'.locks = 1
            \/ app.state = "begin" /\ app'.state = "point" /\ app'.locks = 0
       /\ app'.locks <= 1]_vars

\* The second pointing session of a run locked, every tick of it within
\* tolerance, exactly HOLD_MS after its first tick.
C24_Witness ==
    /\ app.state = "danger_q" /\ app.locks = 1 /\ app.all_in
    /\ ~IsNone(app.sending_started_at)
    /\ app.now_ms - Val(app.first_tick_ms) = HOLD_MS

\* C25: the first tick after a reset sets the smoothed bearing to the raw
\* bearing, and every later tick of the session sets it to the circular
\* moving average of the smoothed bearing and the raw bearing.
C25_SmoothingInitialisedOnce ==
    [][IsTick =>
          app'.arrow_angle_smooth_deg =
              IF IsNone(app.first_tick_ms) THEN TickRaw
              ELSE circular_ema(app.arrow_angle_smooth_deg, TickRaw)]_vars

\* C26: the alignment state is reset when the target changes: a step that
\* replaces the target position during a pointing session clears the dwell
\* timer and restarts the smoothing.
C26_TargetChangeResets ==
    [][(app.state = "point" /\ app'.sat_ecef_m # app.sat_ecef_m) =>
          /\ IsNone(app'.align_ok_since_ms)
          /\ app'.arrow_angle_smooth_deg = 0]_vars

\* C28: cancellation always completes: once the stop flag is set while a
\* loop thread is alive, the flag stays set until that thread has exited,
\* and the thread's next check of the flag ends it without a further cycle.
C28_CancellationCompletes ==
    [][\A t \in ThreadIds :
          /\ (stop_event /\ Alive(t) /\ threads'[t].pc \in {"top", "cycle"})
                => stop_event'
          /\ (stop_event /\ LoopCheck(t)) => threads'[t].pc = "done"]_vars

\* C29: lastFetchTime is written only by a loop thread, at the end of its
\* fetch cycle, and never by a context that calls start() or stop().
C29_OnlyLoopWritesLastFetchTime ==
    [][last_fetch_time' # last_fetch_time =>
          \E t \in ThreadIds :
              threads[t].pc = "cycle" /\ threads'[t].pc = "top"]_vars

\* No strategy's test_url can be reached.
Offline == [i \in 1..DefaultStrategies |-> FALSE]

\* C30: while no connection strategy is available, scheduler starts and
\* wakes leave the repository unchanged and raise nothing to the caller:
\* the initial fetch returns to start(), a fetch cycle leaves the loop
\* thread running, and no start() call ends with an exception.
C30_OfflineDegradesGracefully ==
    [][/\ \A t \in ThreadIds :
             LoopCycle(t, Offline) =>
                 /\ repo' = repo
                 /\ threads'[t].pc = "top"
       /\ \A c \in CallerIds :
             /\ DoInitialFetch(c) =>
                   /\ repo' = repo
                   /\ callers'[c].pc = "start_64"
             /\ callers[c].pc = "start_66" =>
                   callers'[c].ret # "RuntimeError_66"]_vars

\* The (identity, id) pairs of a list of rows.
IdsOf(rows) == {<<Identity(rows[i]), rows[i].id>> : i \in DOMAIN rows}

\* C31: stored records are never deleted and keep their id: a step keeps
\* every stored (identity, id) pair, the rows a fetch_all_tles returned are
\* every stored identity under its stored id, and the row a
\* fetch_satellite_by_id returned is a stored identity under its stored id,
\* also after the identity was upserted again.
C31_RecordsKeptUnderTheirId ==
    [][/\ IdsOf(repo.tles) \subseteq IdsOf(repo'.tles)
       /\ (ended'.op = "fetch_all_tles" /\ ended'.result # <<>>) =>
              IdsOf(ended'.result) = IdsOf(repo'.tles)
       /\ (ended'.op = "fetch_satellite_by_id" /\ ~IsNone(ended'.result)) =>
              IdsOf(ended'.result) \subseteq IdsOf(repo'.tles)]_vars

\* C31 witness: a triple was stored under id 1 and upserted again (the
\* sequence is ahead of the number of rows), and fetch_satellite_by_id(1)
\* returned it under id 1.
C31_Witness ==
    /\ repo.sqlite_sequence > Len(repo.tles)
    /\ ended.op = "fetch_satellite_by_id"
    /\ ~IsNone(ended.result)
    /\ Val(ended.result).id = 1
    /\ <<Identity(Val(ended.result)), 1>> \in IdsOf(repo.tles)

\* C32: a can_connect call that gives no max_range_km applies the limit the
\* service was constructed with: it returns True exactly when the range is
\* within that limit and the azimuth, elevation and range differences are
\* within their tolerances.
C32_ConstructorLimitApplies ==
    (tg.pc = "returned" /\ IsNone(tg.given)) =>
        (tg.result <=>
            /\ tg.info.range_km <= tg.max_range_km
            /\ tg.info.azimuth_diff_deg <= AzimuthToleranceDeg
            /\ Abs(tg.info.elevation_diff_deg) <= ElevationToleranceDeg
            /\ Abs(tg.info.range_diff_km) <= RangeToleranceKm)

\* C33: at most one loop thread of the scheduler is alive at any time,
\* whatever the interleaving of the start() and stop() calls.
C33_AtMostOneLoopThread == Cardinality(LiveThreads) <= 1

\* C34: upsert_tles is all-or-nothing on failure, with a connection per
\* call and with an external connection alike: a call that failed leaves
\* what later reads return as it was, and a call that succeeded stores the
\* identities of its own batch and no other.
C34_FailedBatchLeavesNothing ==
    [][(nrepo' # nrepo /\ ended'.op = "upsert_tles") =>
          IF ended'.committed
          THEN {Identity(repo'.tles[i]) : i \in DOMAIN repo'.tles} =
                   {Identity(repo.tles[i]) : i \in DOMAIN repo.tles}
                       \cup TriplesOf(ended'.data)
          ELSE ConnView' = ConnView]_vars

\* C35: parse_tles terminates on every text: each iteration of its loop
\* raises the line index or leaves the loop, a call on n non-blank lines has
\* begun at most n iterations and holds at most n triples, and every call
\* returns.
C35_ParseTlesTerminates ==
    /\ [][ParseWhile =>
             /\ pt'.pc = "returned" \/ pt'.i > pt.i
             /\ pt'.n <= Len(pt'.lines)
             /\ Len(pt'.tles) <= Len(pt'.lines)]_vars
    /\ <>(pt.pc = "returned")

\* C35 witness: a call on at least five non-blank lines returned after at
\* least three iterations, one of which stored a triple.
C35_Witness ==
    /\ pt.pc = "returned"
    /\ Len(pt.lines) >= 5
    /\ pt.n >= 3
    /\ Len(pt.tles) >= 1

\* C36: is_available never reads the cached status before a probe has
\* recorded one: whatever the clock reads, a call made while no status is
\* recorded issues a probe and does not return or fail on the unset status.
C36_NoReadOfUnsetStatus ==
    [][\A c \in CallerIds :
          (IaCheck(c) /\ IsNone(strategies[1].last_status)) =>
              /\ ia'[c].pc = "get"
              /\ ~ia'[c].cached
              /\ Len(probes') = Len(probes) + 1
              /\ ia'[c].ret # "AttributeError"]_vars

\* The scheduler was started and has been stopped: its last loop thread has
\* finished.
Stopped == ~IsNone(thread_ref) /\ threads[Val(thread_ref)].pc = "done"

\* Caller c is in a start() call that was given initial_fetch = False.
StartingWithoutFetch(c) ==
    /\ callers[c].pc \in {"start_64", "start_65", "start_66"}
    /\ callers[c].cyc = NoCycle

\* C37: the scheduler is restartable.  A start() that follows a returned
\* stop() goes past the test of line 59, clears the stop flag and starts a
\* new loop thread, the only one alive, with the flag clear; a loop thread
\* finishes only with the flag set, which only stop() sets; a start() with
\* initial_fetch = False leaves lastFetchTime as it was, and a loop thread
\* begins a fetch cycle only when lastFetchTime is unset or at least the
\* refresh interval old.
C37_Restartable ==
    [][/\ \A c \in CallerIds, b \in BOOLEAN :
             (StartCheck(c, b) /\ Stopped) =>
                 callers'[c].pc = IF b THEN "start_62" ELSE "start_64"
       /\ \A c \in CallerIds : StartClear(c) => ~stop_event'
       /\ \A c \in CallerIds :
             (StartThread(c) /\ \E t \in ThreadIds : threads[t].pc = "done") =>
                 /\ callers'[c].ret = "line_67"
                 /\ ~stop_event'
                 /\ threads[Val(thread_ref)].pc = "created"
                 /\ LiveThreads' = {Val(thread_ref)}
       /\ \A t \in ThreadIds :
             (Alive(t) /\ threads'[t].pc = "done") => stop_event
       /\ (stop_event' /\ ~stop_event) => \E c \in CallerIds : StopSet(c)
       /\ \A c \in CallerIds :
             (StartingWithoutFetch(c) \/ StartCheck(c, FALSE)) =>
                 last_fetch_time' = last_fetch_time
       /\ \A t \in ThreadIds :
             (LoopCheck(t) /\ threads'[t].pc = "cycle"
                 /\ ~IsNone(last_fetch_time)) =>
                 now - Val(last_fetch_time) >= Interval]_vars

\* C37 witness: a fetch was recorded, stop() has returned with the loop
\* thread finished, and a following start(initial_fetch=False) has cleared
\* the flag and created the new thread, lastFetchTime still recorded.
C37_Witness ==
    /\ \E c \in CallerIds :
          callers[c].pc = "start_66" /\ callers[c].cyc = NoCycle
    /\ \E d \in CallerIds : callers[d].ret = "line_73"
    /\ \E t \in ThreadIds : threads[t].pc = "done"
    /\ ~IsNone(thread_ref) /\ threads[Val(thread_ref)].pc = "created"
    /\ ~stop_event
    /\ ~IsNone(last_fetch_time)
====
